---- MODULE Spec2Model ----
(***************************************************************************)
(* A model of the Route53 DNS zone actuator (pkg/controller/dnszone/       *)
(* awsactuator.go): the provider's zones, tags and record sets, the        *)
(* actuator's cache, the DNSZone status, and one action per operation of   *)
(* the actuator; and of the ClusterDeployment test builder (pkg/test/      *)
(* clusterdeployment/clusterdeployment.go): its builders and the arrays    *)
(* their option slices share.                                              *)
(***************************************************************************)
EXTENDS Naturals, Integers, Sequences, FiniteSets, TLC

VARIABLES
    hostedZones,            \* provider: the zones, in the provider's name-ordered listing
    zoneTags,               \* provider: zone id -> the zone's tags
    recordSets,             \* provider: zone id -> the zone's record sets, in listing order
    specZone,               \* dnsZone.Spec.Zone
    additionalTags,         \* dnsZone.Spec.AWS.AdditionalTags
    statusZoneID,           \* dnsZone.Status.AWS.ZoneID (NilID when unset)
    statusConditions,       \* dnsZone.Status.Conditions
    hostedZone,             \* AWSActuator.hostedZone (NoZone when nil)
    currentHostedZoneTags,  \* AWSActuator.currentHostedZoneTags
    calls,                  \* the provider calls issued by the operation that ran last
    result,                 \* what the operation that ran last returned
    pc,                     \* position of a Delete in progress
    listInput,              \* the record listing input of a Delete in progress
    listOutput,             \* the record listing output of a Delete in progress
    ops,                    \* operations run so far (bounded)
    arrays,                 \* test builders: the arrays that option slices point into
    builders,               \* test builders: the builders made so far, each an option slice
    built,                  \* test builders: what the builder call that ran last returned
    writes                  \* record sets another writer has added so far (bounded)

vars == <<hostedZones, zoneTags, recordSets, specZone, additionalTags, statusZoneID,
          statusConditions, hostedZone, currentHostedZoneTags, calls, result, pc,
          listInput, listOutput, ops, arrays, builders, built, writes>>

providerVars == <<hostedZones, zoneTags, recordSets>>
specVars == <<specZone, additionalTags>>
actuatorVars == <<hostedZone, currentHostedZoneTags>>
deleteVars == <<pc, listInput, listOutput>>
builderVars == <<arrays, builders, built>>

-----------------------------------------------------------------------------
(* Values shared by all operations *)

\* A nil *string zone id.
NilID == 0

\* A nil *route53.HostedZone.
NoZone == [Id |-> NilID, Name |-> <<>>, CallerReference |-> ""]

\* No record listing in progress.
NoCursor == [Name |-> <<>>, Type |-> "", SetIdentifier |-> ""]
NoListInput == [HostedZoneId |-> NilID, Start |-> NoCursor]
NoListOutput == [IsTruncated |-> FALSE, Next |-> NoCursor, changes |-> <<>>]

\* Errors: nil, a plain Go error (not an awserr.Error), or an awserr.Error
\* with a code and a message.
NoError == [kind |-> "nil", Code |-> "", Message |-> ""]

PlainError(m) == [kind |-> "error", Code |-> "", Message |-> m]

AWSError(c, m) == [kind |-> "awserr", Code |-> c, Message |-> m]

\* err.(awserr.Error) succeeds
IsAWSErr(err) == err.kind = "awserr"

min(a, b) == IF a <= b THEN a ELSE b

RemoveAt(s, i) == SubSeq(s, 1, i - 1) \o SubSeq(s, i + 1, Len(s))

-----------------------------------------------------------------------------
(* Health conditions: SetConditionsForError and its four setters *)

InsufficientCredentialsCondition == "InsufficientCredentials"
AuthenticationFailureCondition == "AuthenticationFailure"
ConditionTypes == {InsufficientCredentialsCondition, AuthenticationFailureCondition}

ConditionTrue == "True"
ConditionFalse == "False"

accessGrantedReason == "AccessGranted"
accessDeniedReason == "AccessDenied"
authenticationSucceededReason == "AuthenticationSucceeded"
authenticationFailedReason == "AuthenticationFailed"

AccessDeniedMessage == "AccessDenied error encountered (see controller logs for details)"

\* The update policies handed to SetDNSZoneConditionWithChangeCheck: each
\* answers whether a condition whose status did not change is rewritten.
UpdateConditionNever(oldReason, oldMessage, newReason, newMessage) == FALSE

UpdateConditionIfReasonOrMessageChange(oldReason, oldMessage, newReason, newMessage) ==
    oldReason # newReason \/ oldMessage # newMessage

ApplyCheck(check, oldReason, oldMessage, newReason, newMessage) ==
    IF check = "UpdateConditionNever"
    THEN UpdateConditionNever(oldReason, oldMessage, newReason, newMessage)
    ELSE UpdateConditionIfReasonOrMessageChange(oldReason, oldMessage, newReason, newMessage)

\* Index of the first condition of the type, 0 when there is none.
FindDNSZoneCondition(conditions, type) ==
    IF \E i \in 1..Len(conditions) : conditions[i].Type = type
    THEN CHOOSE i \in 1..Len(conditions) :
            /\ conditions[i].Type = type
            /\ \A j \in 1..(i - 1) : conditions[j].Type # type
    ELSE 0

\* Replace the condition of the type in place, or append it when absent;
\* an existing condition is rewritten when its status changes or the
\* policy says so. Returns the conditions and whether they changed.
SetDNSZoneConditionWithChangeCheck(conditions, type, status, reason, message, check) ==
    LET i == FindDNSZoneCondition(conditions, type)
        new == [Type |-> type, Status |-> status, Reason |-> reason, Message |-> message]
    IN  IF i = 0
        THEN [conds |-> Append(conditions, new), changed |-> TRUE]
        ELSE IF \/ conditions[i].Status # status
                \/ ApplyCheck(check, conditions[i].Reason, conditions[i].Message,
                              reason, message)
             THEN [conds |-> [conditions EXCEPT ![i] = new], changed |-> TRUE]
             ELSE [conds |-> conditions, changed |-> FALSE]

\* A setter that appends the returned conditions to the stored ones.
KeepIfUnchangedAppended(conditions, r) ==
    [conds |-> IF r.changed THEN conditions \o r.conds ELSE conditions,
     changed |-> r.changed]

\* Each setter returns the conditions it leaves in the status and its
\* changed flag.
KeepIfUnchanged(conditions, r) ==
    [conds |-> IF r.changed THEN r.conds ELSE conditions, changed |-> r.changed]

\* A clear that reports its change but does not store the conditions.
setInsufficientCredentialsConditionToFalseDropped(conditions) ==
    [conds |-> conditions,
     changed |-> SetDNSZoneConditionWithChangeCheck(conditions,
                    InsufficientCredentialsCondition, ConditionFalse, accessGrantedReason,
                    "credentials are valid", "UpdateConditionNever").changed]

setInsufficientCredentialsConditionToFalse(conditions) ==
    KeepIfUnchanged(conditions,
        SetDNSZoneConditionWithChangeCheck(conditions, InsufficientCredentialsCondition,
            ConditionFalse, accessGrantedReason, "credentials are valid",
            "UpdateConditionNever"))

\* The setter storing the raw provider message.
setInsufficientCredentialsConditionToTrueRaw(conditions, message) ==
    KeepIfUnchanged(conditions,
        SetDNSZoneConditionWithChangeCheck(conditions, InsufficientCredentialsCondition,
            ConditionTrue, accessDeniedReason, message,
            "UpdateConditionIfReasonOrMessageChange"))

setInsufficientCredentialsConditionToTrue(conditions, message) ==
    KeepIfUnchanged(conditions,
        SetDNSZoneConditionWithChangeCheck(conditions, InsufficientCredentialsCondition,
            ConditionTrue, accessDeniedReason, AccessDeniedMessage,
            "UpdateConditionIfReasonOrMessageChange"))

setAuthenticationFailureConditionToFalse(conditions) ==
    KeepIfUnchanged(conditions,
        SetDNSZoneConditionWithChangeCheck(conditions, AuthenticationFailureCondition,
            ConditionFalse, authenticationSucceededReason, "credentials authenticated",
            "UpdateConditionNever"))

setAuthenticationFailureConditionToTrue(conditions, message) ==
    KeepIfUnchanged(conditions,
        SetDNSZoneConditionWithChangeCheck(conditions, AuthenticationFailureCondition,
            ConditionTrue, authenticationFailedReason, message,
            "UpdateConditionIfReasonOrMessageChange"))

\* Only one of the two access-denied codes recognised.
IsAccessDeniedCodeOnly(code) == code = "AccessDenied"

IsAccessDeniedCode(code) == code = "AccessDeniedException" \/ code = "AccessDenied"

\* A classification that also takes one access-denied code for an
\* authentication failure.
IsAuthFailureCodeOrDenied(code) ==
    code = "InvalidSignatureException" \/ code = "UnrecognizedClientException"
        \/ code = "AccessDenied"

IsAuthFailureCode(code) ==
    code = "InvalidSignatureException" \/ code = "UnrecognizedClientException"

\* SetConditionsForError returning the flag of its second setter only.
ConditionsForErrorLastFlag(conditions, err) ==
    LET accessDenied ==
            IF IsAWSErr(err) /\ IsAccessDeniedCode(err.Code)
            THEN setInsufficientCredentialsConditionToTrue(conditions, err.Message)
            ELSE setInsufficientCredentialsConditionToFalse(conditions)
        authenticationFailure ==
            IF IsAWSErr(err) /\ IsAuthFailureCode(err.Code)
            THEN setAuthenticationFailureConditionToTrue(accessDenied.conds, err.Message)
            ELSE setAuthenticationFailureConditionToFalse(accessDenied.conds)
    IN  [conds |-> authenticationFailure.conds,
         changed |-> authenticationFailure.changed,
         wrote |-> {t \in ConditionTypes :
                        \/ t = InsufficientCredentialsCondition /\ accessDenied.changed
                        \/ t = AuthenticationFailureCondition
                            /\ authenticationFailure.changed}]

\* The whole of SetConditionsForError on the given conditions: the
\* conditions it leaves, the flag it returns, and which setters wrote.
ConditionsForError(conditions, err) ==
    LET accessDenied ==
            IF IsAWSErr(err) /\ IsAccessDeniedCode(err.Code)
            THEN setInsufficientCredentialsConditionToTrue(conditions, err.Message)
            ELSE setInsufficientCredentialsConditionToFalse(conditions)
        authenticationFailure ==
            IF IsAWSErr(err) /\ IsAuthFailureCode(err.Code)
            THEN setAuthenticationFailureConditionToTrue(accessDenied.conds, err.Message)
            ELSE setAuthenticationFailureConditionToFalse(accessDenied.conds)
    IN  [conds |-> authenticationFailure.conds,
         changed |-> accessDenied.changed \/ authenticationFailure.changed,
         wrote |-> {t \in ConditionTypes :
                        \/ t = InsufficientCredentialsCondition /\ accessDenied.changed
                        \/ t = AuthenticationFailureCondition
                            /\ authenticationFailure.changed}]

\* The provider messages and codes the model draws errors from.
ErrorMessages == {"User: arn:aws:sts::1 is not authorized", "User: arn:aws:sts::2 is not authorized"}

ErrorCodes == {"AccessDenied", "AccessDeniedException", "InvalidSignatureException",
               "UnrecognizedClientException", "Throttling"}

Errors == {NoError} \cup {PlainError(m) : m \in ErrorMessages}
            \cup {AWSError(c, m) : c \in ErrorCodes, m \in ErrorMessages}

\* Bound on the operations of one behaviour.
MaxOps == 4

SetConditionsForError(err) ==
    /\ pc = "idle"
    /\ ops < MaxOps
    /\ LET r == ConditionsForError(statusConditions, err)
       IN  /\ statusConditions' = r.conds
           /\ result' = [op |-> "SetConditionsForError", err |-> err,
                         changed |-> r.changed, wrote |-> r.wrote,
                         before |-> statusConditions, prev |-> result.err,
                         synced |-> FALSE]
    /\ ops' = ops + 1
    /\ UNCHANGED <<providerVars, specVars, builderVars, writes, statusZoneID, actuatorVars,
                   calls, deleteVars>>

\* The conditions a status can hold before a call: for each type absent,
\* false, or true with one of the messages, in either order.
StoredConditions(type) ==
    IF type = InsufficientCredentialsCondition
    THEN {[Type |-> type, Status |-> ConditionFalse, Reason |-> accessGrantedReason,
           Message |-> "credentials are valid"],
          [Type |-> type, Status |-> ConditionTrue, Reason |-> accessDeniedReason,
           Message |-> AccessDeniedMessage]}
    ELSE {[Type |-> type, Status |-> ConditionFalse,
           Reason |-> authenticationSucceededReason,
           Message |-> "credentials authenticated"]}
         \cup {[Type |-> type, Status |-> ConditionTrue,
                Reason |-> authenticationFailedReason, Message |-> m] : m \in ErrorMessages}

InitialConditions ==
    {<<>>}
    \cup {<<c>> : c \in StoredConditions(InsufficientCredentialsCondition)
                        \cup StoredConditions(AuthenticationFailureCondition)}
    \cup {<<c, d>> : c \in StoredConditions(InsufficientCredentialsCondition),
                     d \in StoredConditions(AuthenticationFailureCondition)}
    \cup {<<d, c>> : c \in StoredConditions(InsufficientCredentialsCondition),
                     d \in StoredConditions(AuthenticationFailureCondition)}

NoResult == [op |-> "none", err |-> NoError, synced |-> FALSE]

\* No builder call has run.
NoBuild == [op |-> "none", b |-> 0, opts |-> <<>>, retval |-> <<>>]

InitConditions ==
    /\ hostedZones = <<>>
    /\ zoneTags = <<>>
    /\ recordSets = {}
    /\ specZone = <<"z", "example", "com">>
    /\ additionalTags = <<>>
    /\ statusZoneID = NilID
    /\ statusConditions \in InitialConditions
    /\ hostedZone = NoZone
    /\ currentHostedZoneTags = <<>>
    /\ calls = <<>>
    /\ result = NoResult
    /\ pc = "idle"
    /\ listInput = NoListInput
    /\ listOutput = NoListOutput
    /\ ops = 0
    /\ arrays = <<>>
    /\ builders = <<>>
    /\ built = NoBuild
    /\ writes = 0

NextConditions == \E err \in Errors : SetConditionsForError(err)

SpecConditions == InitConditions /\ [][NextConditions]_vars

-----------------------------------------------------------------------------
(* Properties of SetConditionsForError, checked under SpecConditions *)

\* The stored condition of a type, as a set (empty when absent).
Stored(conditions, type) == {conditions[i] : i \in {j \in 1..Len(conditions) : conditions[j].Type = type}}

AfterSetConditions == result.op = "SetConditionsForError"

\* The call that ran last had to clear the condition of the type.
Clears(type) ==
    /\ AfterSetConditions
    /\ IF type = InsufficientCredentialsCondition
       THEN ~(result.err.kind = "awserr"
                /\ result.err.Code \in {"AccessDenied", "AccessDeniedException"})
       ELSE ~(result.err.kind = "awserr"
                /\ result.err.Code \in {"InvalidSignatureException",
                                        "UnrecognizedClientException"})

ClearedCondition(type) ==
    IF type = InsufficientCredentialsCondition
    THEN [Type |-> type, Status |-> "False", Reason |-> "AccessGranted",
          Message |-> "credentials are valid"]
    ELSE [Type |-> type, Status |-> "False", Reason |-> "AuthenticationSucceeded",
          Message |-> "credentials authenticated"]

\* C8 as stated: whenever SetConditionsForError clears a condition, the
\* cleared condition is written to the status, whatever was stored (absent,
\* true or already false).
C8_ClearAlwaysWrites ==
    \A t \in ConditionTypes : Clears(t) => t \in result.wrote

\* C8 amended: a clear is written exactly when the stored condition is
\* absent or not false; either way the status then holds the cleared
\* condition, and a clear of an already-false condition writes nothing and
\* leaves the stored condition as it was.
C8_ClearWritesOnStatusChange ==
    \A t \in ConditionTypes :
        Clears(t) =>
            /\ t \in result.wrote
                <=> (\A c \in Stored(result.before, t) : c.Status # "False")
            /\ Stored(statusConditions, t) = {ClearedCondition(t)}
            /\ t \notin result.wrote
                => Stored(statusConditions, t) = Stored(result.before, t)

\* A clear that wrote over a true condition, and in the same behaviour a
\* clear of an already-false condition that wrote nothing.
C8_Witness ==
    /\ Clears(InsufficientCredentialsCondition)
    /\ Clears(AuthenticationFailureCondition)
    /\ InsufficientCredentialsCondition \in result.wrote
    /\ \E c \in Stored(result.before, InsufficientCredentialsCondition) : c.Status = "True"
    /\ AuthenticationFailureCondition \notin result.wrote
    /\ \E c \in Stored(result.before, AuthenticationFailureCondition) : c.Status = "False"

IsAccessDeniedError(err) ==
    err.kind = "awserr" /\ err.Code \in {"AccessDenied", "AccessDeniedException"}

\* C9: an access-denied error leaves insufficient-credentials true with
\* the fixed redacted message and reports a change when the condition was
\* not already true; a second access-denied error right after it, with the
\* same or another raw message, leaves the conditions as they are and
\* reports no change.
C9_RepeatedAccessDeniedWritesOnce ==
    (AfterSetConditions /\ IsAccessDeniedError(result.err)) =>
        /\ Stored(statusConditions, InsufficientCredentialsCondition)
            = {[Type |-> InsufficientCredentialsCondition, Status |-> "True",
                Reason |-> "AccessDenied",
                Message |-> "AccessDenied error encountered (see controller logs for details)"]}
        /\ (\A c \in Stored(result.before, InsufficientCredentialsCondition) :
                c.Status # "True") => result.changed
        /\ IsAccessDeniedError(result.prev) =>
                /\ ~result.changed
                /\ result.wrote = {}
                /\ statusConditions = result.before

\* Two access-denied errors in a row with different raw messages, the
\* first of which was a transition.
C9_Witness ==
    /\ AfterSetConditions
    /\ ops = 2
    /\ IsAccessDeniedError(result.err)
    /\ IsAccessDeniedError(result.prev)
    /\ result.err.Message # result.prev.Message
    /\ ~result.changed

\* C10: after SetConditionsForError(err), insufficient-credentials is true
\* exactly when err is a provider error with an access-denied code, and
\* authentication-failure is true exactly when err is a provider error with
\* an invalid-signature or unrecognized-client code, then carrying the raw
\* provider message; otherwise the condition is stored false.
C10_ConditionsFollowErrorCode ==
    AfterSetConditions =>
        LET denied == result.err.kind = "awserr"
                        /\ result.err.Code \in {"AccessDenied", "AccessDeniedException"}
            unauth == result.err.kind = "awserr"
                        /\ result.err.Code \in {"InvalidSignatureException",
                                                "UnrecognizedClientException"}
        IN  /\ \A c \in Stored(statusConditions, InsufficientCredentialsCondition) :
                    c.Status = IF denied THEN "True" ELSE "False"
            /\ \A c \in Stored(statusConditions, AuthenticationFailureCondition) :
                    /\ c.Status = IF unauth THEN "True" ELSE "False"
                    /\ unauth => c.Message = result.err.Message
            /\ Cardinality(Stored(statusConditions, InsufficientCredentialsCondition)) = 1
            /\ Cardinality(Stored(statusConditions, AuthenticationFailureCondition)) = 1

\* An authentication failure recorded over a stored one with another
\* message, with insufficient-credentials cleared from true.
C10_Witness ==
    /\ AfterSetConditions
    /\ result.err.kind = "awserr"
    /\ result.err.Code = "UnrecognizedClientException"
    /\ \E c \in Stored(result.before, AuthenticationFailureCondition) :
            c.Status = "True" /\ c.Message # result.err.Message
    /\ \E c \in Stored(result.before, InsufficientCredentialsCondition) : c.Status = "True"
    /\ \E c \in Stored(statusConditions, AuthenticationFailureCondition) :
            c.Message = result.err.Message

\* C11: SetConditionsForError returns true exactly when the stored
\* condition of at least one of the two types differs from what was stored
\* before the call; when it returns false the status conditions are the
\* ones stored before the call.
C11_ChangedIffStoredValueChanged ==
    AfterSetConditions =>
        /\ result.changed
            <=> (\E t \in ConditionTypes :
                    Stored(statusConditions, t) # Stored(result.before, t))
        /\ ~result.changed => statusConditions = result.before

\* A call that changed insufficient-credentials only, after a call that
\* changed nothing.
C11_Witness ==
    /\ AfterSetConditions
    /\ ops >= 2
    /\ result.changed
    /\ result.wrote = {InsufficientCredentialsCondition}
    /\ Stored(statusConditions, AuthenticationFailureCondition)
        = Stored(result.before, AuthenticationFailureCondition)
    /\ Stored(statusConditions, InsufficientCredentialsCondition)
        # Stored(result.before, InsufficientCredentialsCondition)

\* C18: after any sequence of SetConditionsForError calls from a status
\* without duplicates the conditions hold at most one entry of each type;
\* a call keeps every stored entry's position and type and appends the
\* entries of the types that were absent.
C18_OneConditionPerType ==
    /\ \A t \in ConditionTypes :
            Cardinality({i \in 1..Len(statusConditions) : statusConditions[i].Type = t}) <= 1
    /\ AfterSetConditions =>
            /\ Len(statusConditions) >= Len(result.before)
            /\ \A i \in 1..Len(result.before) :
                    statusConditions[i].Type = result.before[i].Type
            /\ \A i \in (Len(result.before) + 1)..Len(statusConditions) :
                    \A j \in 1..Len(result.before) :
                        result.before[j].Type # statusConditions[i].Type

\* One call that replaced the only stored condition in place and appended
\* the condition of the other type.
C18_Witness ==
    /\ AfterSetConditions
    /\ Len(result.before) = 1
    /\ Len(statusConditions) = 2
    /\ statusConditions[1] # result.before[1]
    /\ statusConditions[1].Type = result.before[1].Type
    /\ result.wrote = ConditionTypes

\* C29: after any SetConditionsForError call the insufficient-credentials
\* condition and the authentication-failure condition are not both true.
C29_NeverBothConditionsTrue ==
    AfterSetConditions =>
        ~(/\ \E c \in Stored(statusConditions, InsufficientCredentialsCondition) :
                    c.Status = "True"
          /\ \E c \in Stored(statusConditions, AuthenticationFailureCondition) :
                    c.Status = "True")

\* An access-denied error on a status that held both conditions true: the
\* authentication failure is cleared.
C29_Witness ==
    /\ AfterSetConditions
    /\ \E c \in Stored(result.before, InsufficientCredentialsCondition) : c.Status = "True"
    /\ \E c \in Stored(result.before, AuthenticationFailureCondition) : c.Status = "True"
    /\ result.err.Code = "AccessDenied"
    /\ \E c \in Stored(statusConditions, AuthenticationFailureCondition) : c.Status = "False"
    /\ AuthenticationFailureCondition \in result.wrote

-----------------------------------------------------------------------------
(* Names, tags and the provider's tag operations *)

\* A domain name is the sequence of its labels; a trailing dot is a last,
\* empty label.
Dotted(name) ==
    IF Len(name) > 0 /\ name[Len(name)] = "" THEN name ELSE Append(name, "")

hiveDNSZoneAWSTag == "hive.openshift.io/dnszone"

\* dnsZone.Namespace, dnsZone.Name and dnsZone.UID of the declared resource.
Namespace == "a"
Name == "b"
UID == "uid-1"

\* fmt.Sprintf("%s/%s", a.dnsZone.Namespace, a.dnsZone.Name)
OwnerValue == Namespace \o "/" \o Name

expectedTags == <<[Key |-> hiveDNSZoneAWSTag, Value |-> OwnerValue]>> \o additionalTags

\* A comparison by key alone.
tagEqualsByKey(a, b) == a.Key = b.Key

tagEquals(a, b) == a.Key = b.Key /\ a.Value = b.Value

\* A failure chosen for one run of an operation: the provider call with
\* that number (counted from 1 within the operation) returns err; 0: none.
NoFail == [at |-> 0, err |-> NoError]

\* The provider keeps one tag per key: adding a key it holds replaces the
\* value.
RECURSIVE AddTags(_, _, _)
AddTags(tags, toAdd, i) ==
    IF i > Len(toAdd) THEN tags
    ELSE LET t == toAdd[i]
             at == {j \in 1..Len(tags) : tags[j].Key = t.Key}
         IN  AddTags(IF at = {} THEN Append(tags, t)
                     ELSE [j \in 1..Len(tags) |-> IF j \in at THEN t ELSE tags[j]],
                     toAdd, i + 1)

RemoveTags(tags, keys) ==
    SelectSeq(tags, LAMBDA t : \A i \in 1..Len(keys) : keys[i] # t.Key)

\* ChangeTagsForResource on a zone's tags: the removals, then the
\* additions, so that a key named in both ends with the added value.
ChangeTagsForResource(tags, input) ==
    AddTags(RemoveTags(tags, input.RemoveTagKeys), input.AddTags, 1)

-----------------------------------------------------------------------------
(* syncTags *)

\* Index of the first tag of toDelete equal to tag, 0 when there is none.
FirstMatch(tag, toDelete) ==
    IF \E i \in 1..Len(toDelete) : tagEquals(tag, toDelete[i])
    THEN CHOOSE i \in 1..Len(toDelete) :
            /\ tagEquals(tag, toDelete[i])
            /\ \A j \in 1..(i - 1) : ~tagEquals(tag, toDelete[j])
    ELSE 0

\* A diff that leaves the matched tags in toDelete.
TagDiffKeepsMatched(expected, i, toAdd, toDelete) ==
    [toAdd |-> SelectSeq(expected, LAMBDA t : FirstMatch(t, toDelete) = 0),
     toDelete |-> toDelete]

\* The loop over the expected tags: toDelete starts as a copy of the
\* existing tags and loses each tag an expected tag matches; an expected
\* tag with no match goes to toAdd.
RECURSIVE TagDiff(_, _, _, _)
TagDiff(expected, i, toAdd, toDelete) ==
    IF i > Len(expected) THEN [toAdd |-> toAdd, toDelete |-> toDelete]
    ELSE LET m == FirstMatch(expected[i], toDelete)
         IN  IF m > 0
             THEN TagDiff(expected, i + 1, toAdd, RemoveAt(toDelete, m))
             ELSE TagDiff(expected, i + 1, Append(toAdd, expected[i]), toDelete)

\* The size of one ChangeTagsForResource segment.
TagBatch == 10

\* A segment that runs to the end of the list.
SegmentToEnd(list, index) ==
    IF Len(list) > index THEN SubSeq(list, index + 1, Len(list)) ELSE <<>>

\* toAdd[index:min(index+10, len(toAdd))], for a 0-based index.
Segment(list, index) ==
    IF Len(list) > index
    THEN SubSeq(list, index + 1, min(index + TagBatch, Len(list)))
    ELSE <<>>

\* A batching loop that ends as soon as one of the two lists is exhausted.
RECURSIVE TagChangesWhileBoth(_, _, _, _)
TagChangesWhileBoth(toAdd, keysToDelete, index, id) ==
    IF (Len(toAdd) > index /\ Len(keysToDelete) > index)
        \/ (index = 0 /\ Len(toAdd) + Len(keysToDelete) > 0)
    THEN <<[op |-> "ChangeTagsForResource",
            AddTags |-> Segment(toAdd, index),
            RemoveTagKeys |-> Segment(keysToDelete, index),
            ResourceId |-> id]>>
         \o TagChangesWhileBoth(toAdd, keysToDelete, index + TagBatch, id)
    ELSE <<>>

\* The ChangeTagsForResource inputs the batching loop builds, in order.
RECURSIVE TagChanges(_, _, _, _)
TagChanges(toAdd, keysToDelete, index, id) ==
    IF Len(toAdd) > index \/ Len(keysToDelete) > index
    THEN <<[op |-> "ChangeTagsForResource",
            AddTags |-> Segment(toAdd, index),
            RemoveTagKeys |-> Segment(keysToDelete, index),
            ResourceId |-> id]>>
         \o TagChanges(toAdd, keysToDelete, index + TagBatch, id)
    ELSE <<>>

\* The calls are issued one after the other; the first that fails ends the
\* sync with its error.
RECURSIVE IssueTagChanges(_, _, _, _, _)
IssueTagChanges(planned, k, tags, issued, fail) ==
    IF k > Len(planned) THEN [tags |-> tags, calls |-> issued, err |-> NoError]
    ELSE IF Len(issued) + 1 = fail.at
         THEN [tags |-> tags,
               calls |-> Append(issued, planned[k] @@ [err |-> fail.err]),
               err |-> fail.err]
         ELSE IssueTagChanges(planned, k + 1,
                              ChangeTagsForResource(tags, planned[k]),
                              Append(issued, planned[k] @@ [err |-> NoError]), fail)

\* syncTags on the cached tags `existing` of zone `id`, whose tags on the
\* provider are `tags`; `issued` are the calls the operation made before.
\* Returns the provider's tags, the calls and the error, and the two lists
\* of the diff.
syncTags(existing, expected, id, tags, issued, fail) ==
    LET d == TagDiff(expected, 1, <<>>, existing)
        keysToDelete == [i \in 1..Len(d.toDelete) |-> d.toDelete[i].Key]
    IN  (IF Len(d.toDelete) = 0 /\ Len(d.toAdd) = 0
         THEN [tags |-> tags, calls |-> issued, err |-> NoError]
         ELSE IssueTagChanges(TagChanges(d.toAdd, keysToDelete, 0, id), 1, tags,
                              issued, fail))
        @@ [toAdd |-> d.toAdd, toDelete |-> d.toDelete]

-----------------------------------------------------------------------------
(* The provider's zones, and Refresh *)

\* The zone ids the provider can hand out.
MaxZones == 3
ZoneIDs == 1..MaxZones

ZoneExists(id) == \E i \in 1..Len(hostedZones) : hostedZones[i].Id = id

ZoneByID(id) == hostedZones[CHOOSE i \in 1..Len(hostedZones) : hostedZones[i].Id = id]

NoSuchHostedZone == AWSError("NoSuchHostedZone", "No hosted zone found with ID")

\* The errors a provider call can fail with, whatever the provider's state.
FailErrors == {PlainError("connection reset"), AWSError("Throttling", "Rate exceeded")}

\* The largest call number a failure is chosen for.
MaxFailAt == 5

Fails == {NoFail} \cup {[at |-> k, err |-> e] : k \in 1..MaxFailAt, e \in FailErrors}

\* The length of a page of the tag search.
SearchPageSize == 2

\* Whether the tag index holds the ownership tag for the zone id.
OwnerTagged(id) ==
    \E i \in 1..Len(zoneTags[id]) :
        /\ zoneTags[id][i].Key = hiveDNSZoneAWSTag
        /\ zoneTags[id][i].Value = OwnerValue

\* The ids the tag index still holds for zones that are gone, in id order.
RECURSIVE StaleTagged(_)
StaleTagged(id) ==
    IF id > MaxZones THEN <<>>
    ELSE (IF OwnerTagged(id) /\ ~ZoneExists(id) THEN <<id>> ELSE <<>>)
         \o StaleTagged(id + 1)

\* The zones carrying the ownership tag, as ARNs already split into the
\* elements of their resource part: the zones that are gone but still
\* indexed, then the provider's zones in its order.
TaggedARNs ==
    LET tagged == SelectSeq(hostedZones, LAMBDA z : OwnerTagged(z.Id))
        ids == StaleTagged(1) \o [i \in 1..Len(tagged) |-> tagged[i].Id]
    IN  [i \in 1..Len(ids) |-> [Resource |-> <<"hostedzone", ids[i]>>]]

\* The ids of one page of search results.
PageIDs(page) ==
    LET ok == SelectSeq(page, LAMBDA m :
                    Len(m.Resource) = 2 /\ m.Resource[1] = "hostedzone")
    IN  [i \in 1..Len(ok) |-> ok[i].Resource[2]]

\* GetResourcesPages: one call per page until the last page; the callback
\* collects every id of every page.
RECURSIVE findZoneIDsByTag(_, _, _, _)
findZoneIDsByTag(from, ids, issued, fail) ==
    LET failed == Len(issued) + 1 = fail.at
        call == [op |-> "GetResources", from |-> from,
                 err |-> IF failed THEN fail.err ELSE NoError]
        arns == TaggedARNs
        to == min(from + SearchPageSize - 1, Len(arns))
    IN  IF failed
        THEN [ids |-> ids, calls |-> Append(issued, call), err |-> fail.err]
        ELSE IF to >= Len(arns)
             THEN [ids |-> ids \o PageIDs(SubSeq(arns, from, to)),
                   calls |-> Append(issued, call), err |-> NoError]
             ELSE findZoneIDsByTag(to + 1, ids \o PageIDs(SubSeq(arns, from, to)),
                                   Append(issued, call), fail)

\* A loop that ends Refresh at a zone that no longer exists.
RECURSIVE FetchZonesNotFoundFatal(_, _, _, _, _, _)
FetchZonesNotFoundFatal(zoneIDs, i, zone, zoneID, issued, fail) ==
    IF i > Len(zoneIDs)
    THEN [hostedZone |-> zone, statusZoneID |-> zoneID, calls |-> issued, err |-> NoError]
    ELSE LET failed == Len(issued) + 1 = fail.at
             gone == ~ZoneExists(zoneIDs[i])
             now == Append(issued,
                        [op |-> "GetHostedZone", Id |-> zoneIDs[i],
                         err |-> IF failed THEN fail.err
                                 ELSE IF gone THEN NoSuchHostedZone ELSE NoError])
         IN  IF failed \/ gone
             THEN [hostedZone |-> zone, statusZoneID |-> zoneID, calls |-> now,
                   err |-> IF failed THEN fail.err ELSE NoSuchHostedZone]
             ELSE IF ZoneByID(zoneIDs[i]).Name # Dotted(specZone)
                  THEN FetchZonesNotFoundFatal(zoneIDs, i + 1, zone, zoneID, now, fail)
                  ELSE FetchZonesNotFoundFatal(zoneIDs, i + 1, ZoneByID(zoneIDs[i]),
                                               zoneIDs[i], now, fail)

\* A loop that stops at the first zone of the expected name.
RECURSIVE FetchZonesFirstMatch(_, _, _, _, _, _)
FetchZonesFirstMatch(zoneIDs, i, zone, zoneID, issued, fail) ==
    IF i > Len(zoneIDs)
    THEN [hostedZone |-> zone, statusZoneID |-> zoneID, calls |-> issued, err |-> NoError]
    ELSE LET failed == Len(issued) + 1 = fail.at
             now == Append(issued,
                        [op |-> "GetHostedZone", Id |-> zoneIDs[i],
                         err |-> IF failed THEN fail.err
                                 ELSE IF ~ZoneExists(zoneIDs[i]) THEN NoSuchHostedZone
                                 ELSE NoError])
         IN  IF failed
             THEN [hostedZone |-> zone, statusZoneID |-> zoneID, calls |-> now,
                   err |-> fail.err]
             ELSE IF ~ZoneExists(zoneIDs[i])
                  THEN FetchZonesFirstMatch(zoneIDs, i + 1, zone, zoneID, now, fail)
                  ELSE IF ZoneByID(zoneIDs[i]).Name # Dotted(specZone)
                       THEN FetchZonesFirstMatch(zoneIDs, i + 1, zone, zoneID, now, fail)
                       ELSE [hostedZone |-> ZoneByID(zoneIDs[i]),
                             statusZoneID |-> zoneIDs[i], calls |-> now, err |-> NoError]

\* A fetch loop that caches the zone of a match and leaves the status as
\* it was.
RECURSIVE FetchZonesStatusUnwritten(_, _, _, _, _, _)
FetchZonesStatusUnwritten(zoneIDs, i, zone, zoneID, issued, fail) ==
    IF i > Len(zoneIDs)
    THEN [hostedZone |-> zone, statusZoneID |-> zoneID, calls |-> issued, err |-> NoError]
    ELSE LET failed == Len(issued) + 1 = fail.at
             now == Append(issued,
                        [op |-> "GetHostedZone", Id |-> zoneIDs[i],
                         err |-> IF failed THEN fail.err
                                 ELSE IF ~ZoneExists(zoneIDs[i]) THEN NoSuchHostedZone
                                 ELSE NoError])
         IN  IF failed
             THEN [hostedZone |-> zone, statusZoneID |-> zoneID, calls |-> now,
                   err |-> fail.err]
             ELSE IF ~ZoneExists(zoneIDs[i])
                  THEN FetchZonesStatusUnwritten(zoneIDs, i + 1, zone, zoneID, now, fail)
                  ELSE IF ZoneByID(zoneIDs[i]).Name # Dotted(specZone)
                       THEN FetchZonesStatusUnwritten(zoneIDs, i + 1, zone, zoneID, now,
                                                      fail)
                       ELSE FetchZonesStatusUnwritten(zoneIDs, i + 1, ZoneByID(zoneIDs[i]),
                                                      zoneID, now, fail)

\* The loop over the candidate ids: a zone that no longer exists or whose
\* name is not the expected one is skipped, any other error ends Refresh,
\* and each match replaces the one before it.
RECURSIVE FetchZones(_, _, _, _, _, _)
FetchZones(zoneIDs, i, zone, zoneID, issued, fail) ==
    IF i > Len(zoneIDs)
    THEN [hostedZone |-> zone, statusZoneID |-> zoneID, calls |-> issued, err |-> NoError]
    ELSE LET failed == Len(issued) + 1 = fail.at
             now == Append(issued,
                        [op |-> "GetHostedZone", Id |-> zoneIDs[i],
                         err |-> IF failed THEN fail.err
                                 ELSE IF ~ZoneExists(zoneIDs[i]) THEN NoSuchHostedZone
                                 ELSE NoError])
         IN  IF failed
             THEN [hostedZone |-> zone, statusZoneID |-> zoneID, calls |-> now,
                   err |-> fail.err]
             ELSE IF ~ZoneExists(zoneIDs[i])
                  THEN FetchZones(zoneIDs, i + 1, zone, zoneID, now, fail)
                  ELSE IF ZoneByID(zoneIDs[i]).Name # Dotted(specZone)
                       THEN FetchZones(zoneIDs, i + 1, zone, zoneID, now, fail)
                       ELSE FetchZones(zoneIDs, i + 1, ZoneByID(zoneIDs[i]), zoneIDs[i],
                                       now, fail)

\* existingTags: ListTagsForResource for the zone; `present` tells whether
\* the provider holds the zone.
existingTags(id, present, issued, fail) ==
    LET failed == Len(issued) + 1 = fail.at
        now == Append(issued,
                    [op |-> "ListTagsForResource", ResourceId |-> id,
                     err |-> IF failed THEN fail.err
                             ELSE IF ~present THEN NoSuchHostedZone ELSE NoError])
    IN  IF failed
        THEN [tags |-> <<>>, calls |-> now, err |-> fail.err]
        ELSE IF ~present
             THEN [tags |-> <<>>, calls |-> now, err |-> NoSuchHostedZone]
             ELSE [tags |-> zoneTags[id], calls |-> now, err |-> NoError]

\* The candidate ids of Refresh: the id of the status when it holds one,
\* the ids found by tag otherwise.
CandidateIDsSearchedAnyway(fail) ==
    LET found == findZoneIDsByTag(1, <<>>, <<>>, fail)
    IN  IF statusZoneID # NilID
        THEN [found EXCEPT !.ids = <<statusZoneID>>]
        ELSE found

CandidateIDs(fail) ==
    IF statusZoneID # NilID
    THEN [ids |-> <<statusZoneID>>, calls |-> <<>>, err |-> NoError]
    ELSE findZoneIDsByTag(1, <<>>, <<>>, fail)

\* Refresh as a whole: what it leaves in the actuator and the status, the
\* calls it made and the error it returns.
RefreshOutcome(fail) ==
    LET keep == [hostedZone |-> hostedZone, statusZoneID |-> statusZoneID,
                 tags |-> currentHostedZoneTags]
        found == CandidateIDs(fail)
        fetched == FetchZones(found.ids, 1, NoZone, statusZoneID, found.calls, fail)
        listed == existingTags(fetched.hostedZone.Id, TRUE, fetched.calls, fail)
    IN  IF found.err # NoError THEN keep @@ [calls |-> found.calls, err |-> found.err]
        ELSE IF Len(found.ids) = 0 THEN keep @@ [calls |-> found.calls, err |-> NoError]
        ELSE IF fetched.err # NoError \/ fetched.hostedZone = NoZone
        THEN [hostedZone |-> fetched.hostedZone, statusZoneID |-> fetched.statusZoneID,
              tags |-> currentHostedZoneTags, calls |-> fetched.calls,
              err |-> fetched.err]
        ELSE [hostedZone |-> fetched.hostedZone, statusZoneID |-> fetched.statusZoneID,
              tags |-> IF listed.err = NoError THEN listed.tags
                       ELSE currentHostedZoneTags,
              calls |-> listed.calls, err |-> listed.err]

Refresh(fail) ==
    /\ pc = "idle"
    /\ ops < MaxOps
    /\ \E r \in {RefreshOutcome(fail)} :
           /\ hostedZone' = r.hostedZone
           /\ statusZoneID' = r.statusZoneID
           /\ currentHostedZoneTags' = r.tags
           /\ calls' = r.calls
           /\ result' = [op |-> "Refresh", err |-> r.err, synced |-> result.synced,
                         before |-> statusZoneID]
    /\ ops' = ops + 1
    /\ UNCHANGED <<providerVars, specVars, builderVars, writes, statusConditions, deleteVars>>

\* UpdateMetadata: syncTags on the resolved zone.
UpdateMetadata(fail) ==
    /\ pc = "idle"
    /\ ops < MaxOps
    /\ IF hostedZone = NoZone
       THEN /\ result' = [op |-> "UpdateMetadata",
                          err |-> PlainError("hostedZone is unpopulated"),
                          synced |-> FALSE, resync |-> FALSE]
            /\ calls' = <<>>
            /\ UNCHANGED zoneTags
       ELSE \E id \in {hostedZone.Id} :
            \E r \in {syncTags(currentHostedZoneTags, expectedTags, id, zoneTags[id], <<>>,
                               IF ZoneExists(id) THEN fail
                               ELSE [at |-> 1, err |-> NoSuchHostedZone])} :
                /\ zoneTags' = [zoneTags EXCEPT ![id] = r.tags]
                /\ calls' = r.calls
                /\ result' = [op |-> "UpdateMetadata", err |-> r.err,
                              synced |-> r.err = NoError, resync |-> result.synced,
                              toAdd |-> r.toAdd, toDelete |-> r.toDelete]
    /\ ops' = ops + 1
    /\ UNCHANGED <<hostedZones, recordSets, specVars, builderVars, writes, statusZoneID,
                   statusConditions,
                   actuatorVars, deleteVars>>

\* Exists reporting a zone whenever the status holds an id.
ExistsOutcomeByStatus == statusZoneID # NilID

ExistsOutcome == hostedZone # NoZone

\* Exists: whether the actuator holds a zone; never an error, no call.
Exists ==
    /\ pc = "idle"
    /\ ops < MaxOps
    /\ calls' = <<>>
    /\ result' = [op |-> "Exists", exists |-> ExistsOutcome, err |-> NoError,
                  synced |-> result.synced]
    /\ ops' = ops + 1
    /\ UNCHANGED <<providerVars, specVars, builderVars, writes, statusZoneID, statusConditions,
                   actuatorVars,
                   deleteVars>>

\* NewAWSActuator: the actuator of the next sync, with nothing cached.
NewAWSActuator ==
    /\ pc = "idle"
    /\ result.op \notin {"none", "NewAWSActuator"}
    /\ hostedZone' = NoZone
    /\ currentHostedZoneTags' = <<>>
    /\ calls' = <<>>
    /\ result' = [op |-> "NewAWSActuator", err |-> NoError, synced |-> result.synced]
    /\ UNCHANGED <<providerVars, specVars, builderVars, writes, statusZoneID, statusConditions,
                   deleteVars, ops>>

-----------------------------------------------------------------------------
(* Create and the search by caller reference *)

\* The names of the provider's zones, in the order the provider lists them.
ZoneNames == << <<"a", "example", "com", "">>, <<"z", "example", "com", "">>,
                <<"zz", "example", "com", "">> >>

NameRank(name) == CHOOSE i \in 1..Len(ZoneNames) : ZoneNames[i] = name

\* The length of a page of ListHostedZonesByName.
ZonesPageSize == 2

\* Where the listing by name starts: the first zone whose name is not
\* before the requested one.
ListStart(dnsName) ==
    LET at == {i \in 1..Len(hostedZones) :
                    NameRank(hostedZones[i].Name) >= NameRank(Dotted(dnsName))}
    IN  IF at = {} THEN Len(hostedZones) + 1
        ELSE CHOOSE i \in at : \A j \in at : i <= j

HostedZoneNotFound == PlainError("Hosted zone not found")

\* A scan that goes past the zones of other names.
RECURSIVE ScanPageIgnoringNames(_, _, _, _)
ScanPageIgnoringNames(i, to, domain, callerRef) ==
    IF i > to THEN [at |-> "next", i |-> 0]
    ELSE IF hostedZones[i].CallerReference = callerRef THEN [at |-> "found", i |-> i]
    ELSE ScanPageIgnoringNames(i + 1, to, domain, callerRef)

\* The scan of one page: "found" with the index of the first zone whose
\* caller reference is the one looked for, "abort" at a zone of another
\* name met before it, "next" when the page holds neither.
RECURSIVE ScanPage(_, _, _, _)
ScanPage(i, to, domain, callerRef) ==
    IF i > to THEN [at |-> "next", i |-> 0]
    ELSE IF hostedZones[i].CallerReference = callerRef THEN [at |-> "found", i |-> i]
    ELSE IF hostedZones[i].Name # domain THEN [at |-> "abort", i |-> i]
    ELSE ScanPage(i + 1, to, domain, callerRef)

\* findZoneByCallerReference from position `from` of the listing: one
\* ListHostedZonesByName call per page, until a page is not truncated.
RECURSIVE findZoneByCallerReference(_, _, _, _, _)
findZoneByCallerReference(domain, callerRef, from, issued, fail) ==
    LET now == Append(issued, [op |-> "ListHostedZonesByName", from |-> from,
                               err |-> IF Len(issued) + 1 = fail.at THEN fail.err
                                       ELSE NoError])
        to == min(from + ZonesPageSize - 1, Len(hostedZones))
        scan == ScanPage(from, to, domain, callerRef)
        IsTruncated == to < Len(hostedZones)
    IN  IF Len(issued) + 1 = fail.at
        THEN [zone |-> NoZone, calls |-> now, err |-> fail.err]
        ELSE IF scan.at = "found"
        THEN [zone |-> hostedZones[scan.i], calls |-> now, err |-> NoError]
        ELSE IF scan.at = "abort" \/ ~IsTruncated
        THEN [zone |-> NoZone, calls |-> now, err |-> HostedZoneNotFound]
        ELSE findZoneByCallerReference(domain, callerRef, to + 1, now, fail)

HostedZoneAlreadyExists == AWSError("HostedZoneAlreadyExists", "The hosted zone already exists")
TooManyHostedZones == AWSError("TooManyHostedZones", "Limit on hosted zones reached")

\* An input whose caller reference changes from one attempt to the next.
CreateHostedZoneInputPerAttempt ==
    [op |-> "CreateHostedZone", Name |-> specZone,
     CallerReference |-> UID \o "-" \o ToString(ops)]

\* The input of CreateHostedZone: the zone's name and, as the caller
\* reference, the UID of the DNSZone.
CreateHostedZoneInput == [op |-> "CreateHostedZone", Name |-> specZone, CallerReference |-> UID]

\* The id the provider gives the next zone (NilID when it has none left).
FreshID ==
    LET free == {id \in ZoneIDs :
                    /\ id > statusZoneID
                    /\ id > hostedZone.Id
                    /\ \A i \in 1..Len(hostedZones) : id > hostedZones[i].Id}
    IN  IF free = {} THEN NilID ELSE CHOOSE id \in free : \A other \in free : id <= other

\* The places of the listing where a zone of that name keeps it ordered.
InsertPositions(name) ==
    {p \in 1..(Len(hostedZones) + 1) :
        /\ \A i \in 1..(p - 1) : NameRank(hostedZones[i].Name) <= NameRank(name)
        /\ \A i \in p..Len(hostedZones) : NameRank(hostedZones[i].Name) >= NameRank(name)}

InsertAt(list, p, e) == SubSeq(list, 1, p - 1) \o <<e>> \o SubSeq(list, p, Len(list))

\* The two record sets every new zone comes with.
ApexRecordSets(name) ==
    {[Name |-> name, Type |-> "NS", SetIdentifier |-> ""],
     [Name |-> name, Type |-> "SOA", SetIdentifier |-> ""]}

\* CreateHostedZone on the provider. The provider creates at most one zone
\* per caller reference; a call that fails may have created the zone all
\* the same when `lost` (the response was lost on the way back).
CreateHostedZone(input, pos, fail, lost) ==
    LET exists == \E i \in 1..Len(hostedZones) :
                        hostedZones[i].CallerReference = input.CallerReference
        zone == [Id |-> FreshID, Name |-> Dotted(input.Name),
                 CallerReference |-> input.CallerReference]
        created == [zones |-> InsertAt(hostedZones, pos, zone),
                    records |-> [recordSets EXCEPT ![zone.Id] = ApexRecordSets(zone.Name)]]
        kept == [zones |-> hostedZones, records |-> recordSets]
        can == ~exists /\ FreshID # NilID
    IN  IF fail.at = 1
        THEN (IF lost /\ can THEN created ELSE kept) @@ [zone |-> NoZone, err |-> fail.err]
        ELSE IF exists THEN kept @@ [zone |-> NoZone, err |-> HostedZoneAlreadyExists]
        ELSE IF ~can THEN kept @@ [zone |-> NoZone, err |-> TooManyHostedZones]
        ELSE created @@ [zone |-> zone, err |-> NoError]

\* A Create that caches and records the zone only once its tags are synced.
CreateRecordsAfterSync(pos, fail, lost) ==
    /\ pc = "idle"
    /\ ops < MaxOps
    /\ pos \in InsertPositions(Dotted(specZone))
    /\ LET c == CreateHostedZone(CreateHostedZoneInput, pos, fail, lost)
           first == <<CreateHostedZoneInput>>
           found == IF c.err = HostedZoneAlreadyExists
                    THEN findZoneByCallerReference(specZone, UID, ListStart(specZone),
                                                   first, fail)
                    ELSE [zone |-> c.zone, calls |-> first, err |-> c.err]
           listed == existingTags(found.zone.Id, TRUE, found.calls, fail)
           synced == syncTags(listed.tags, expectedTags, found.zone.Id, listed.tags,
                              listed.calls, fail)
       IN  /\ hostedZones' = c.zones
           /\ recordSets' = c.records
           /\ IF found.err # NoError
              THEN /\ calls' = found.calls
                   /\ result' = [op |-> "Create", err |-> found.err, synced |-> FALSE,
                                 resync |-> FALSE]
                   /\ UNCHANGED <<zoneTags, statusZoneID, actuatorVars>>
              ELSE IF listed.err # NoError
              THEN /\ calls' = listed.calls
                   /\ result' = [op |-> "Create", err |-> listed.err, synced |-> FALSE,
                                 resync |-> FALSE]
                   /\ UNCHANGED <<zoneTags, statusZoneID, actuatorVars>>
              ELSE /\ IF synced.err = NoError
                      THEN /\ hostedZone' = found.zone
                           /\ statusZoneID' = found.zone.Id
                           /\ currentHostedZoneTags' = listed.tags
                      ELSE UNCHANGED <<statusZoneID, actuatorVars>>
                   /\ zoneTags' = [zoneTags EXCEPT ![found.zone.Id] = synced.tags]
                   /\ calls' = synced.calls
                   /\ result' = [op |-> "Create", err |-> synced.err,
                                 synced |-> synced.err = NoError,
                                 resync |-> result.synced]
    /\ ops' = ops + 1
    /\ UNCHANGED <<specVars, builderVars, writes, statusConditions, deleteVars>>

\* Create: the zone is created, or found by caller reference when it
\* exists already; then its tags are listed, the zone is cached and
\* recorded in the status, and its tags are synced.
Create(pos, fail, lost) ==
    /\ pc = "idle"
    /\ ops < MaxOps
    /\ pos \in InsertPositions(Dotted(specZone))
    /\ \E c \in {CreateHostedZone(CreateHostedZoneInput, pos, fail, lost)} :
       \E found \in {IF c.err = HostedZoneAlreadyExists
                     THEN findZoneByCallerReference(specZone, UID, ListStart(specZone),
                                                    <<CreateHostedZoneInput>>, fail)
                     ELSE [zone |-> c.zone, calls |-> <<CreateHostedZoneInput>>,
                           err |-> c.err]} :
           /\ hostedZones' = c.zones
           /\ recordSets' = c.records
           /\ IF found.err # NoError
              THEN /\ calls' = found.calls
                   /\ result' = [op |-> "Create", err |-> found.err, synced |-> FALSE,
                                 resync |-> FALSE]
                   /\ UNCHANGED <<zoneTags, statusZoneID, actuatorVars>>
              ELSE \E listed \in {existingTags(found.zone.Id, TRUE, found.calls, fail)} :
                   IF listed.err # NoError
                   THEN /\ calls' = listed.calls
                        /\ result' = [op |-> "Create", err |-> listed.err,
                                      synced |-> FALSE, resync |-> FALSE]
                        /\ UNCHANGED <<zoneTags, statusZoneID, actuatorVars>>
                   ELSE \E synced \in {syncTags(listed.tags, expectedTags, found.zone.Id,
                                                listed.tags, listed.calls, fail)} :
                        /\ hostedZone' = found.zone
                        /\ statusZoneID' = found.zone.Id
                        /\ currentHostedZoneTags' = listed.tags
                        /\ zoneTags' = [zoneTags EXCEPT ![found.zone.Id] = synced.tags]
                        /\ calls' = synced.calls
                        /\ result' = [op |-> "Create", err |-> synced.err,
                                      synced |-> synced.err = NoError,
                                      resync |-> result.synced]
    /\ ops' = ops + 1
    /\ UNCHANGED <<specVars, builderVars, writes, statusConditions, deleteVars>>

-----------------------------------------------------------------------------
(* Reconciliation passes: a new actuator, Refresh, then Create when no     *)
(* zone was resolved and UpdateMetadata when one was.                      *)

PassRefresh ==
    /\ result.op \in {"none", "NewAWSActuator"}
    /\ \E fail \in Fails : Refresh(fail)

PassCreate ==
    /\ result.op = "Refresh" /\ result.err = NoError /\ hostedZone = NoZone
    /\ \E pos \in 1..(MaxZones + 1), fail \in Fails, lost \in BOOLEAN :
            Create(pos, fail, lost)

PassUpdateMetadata ==
    /\ result.op = "Refresh" /\ result.err = NoError /\ hostedZone # NoZone
    /\ \E fail \in Fails : UpdateMetadata(fail)

Next == PassRefresh \/ PassCreate \/ PassUpdateMetadata \/ NewAWSActuator

\* The zone's name as declared: with or without the trailing dot.
DeclaredZones == {<<"z", "example", "com">>, <<"z", "example", "com", "">>}

UserTag(i) == [Key |-> "k" \o ToString(i), Value |-> "x"]

StaleTag(i) == [Key |-> "s" \o ToString(i), Value |-> "x"]

Reverse(list) == [i \in 1..Len(list) |-> list[Len(list) + 1 - i]]

\* The largest numbers of declared tags and of tags only the provider holds,
\* and the sizes drawn: none, one or two, and those around a full segment.
MaxUserTags == 11
MaxStaleTags == 11
UserTagCounts == {0, 1, 2, MaxUserTags}
StaleTagCounts == {0, 1, MaxStaleTags - 1, MaxStaleTags}
HeldCounts(n) == {0, 1, n, n + 1}

\* The tags a zone can hold when a pass begins: the first `held` expected
\* tags, then possibly the next expected key with another value, and
\* `stale` tags that are not expected, in one of three orders.
ProviderTags(expected, held, changed, stale, order) ==
    LET good == SubSeq(expected, 1, held)
        other == IF changed /\ held < Len(expected)
                 THEN <<[Key |-> expected[held + 1].Key, Value |-> "y"]>>
                 ELSE <<>>
        rest == [i \in 1..stale |-> StaleTag(i)]
    IN  IF order = "expectedFirst" THEN good \o other \o rest
        ELSE IF order = "staleFirst" THEN rest \o other \o good
        ELSE Reverse(good \o other \o rest)

NoTags == [id \in ZoneIDs |-> <<>>]

NoRecordSets == [id \in ZoneIDs |-> {}]

\* A resource whose zone exists, with any of the tag sets above, and whose
\* status may or may not hold the zone's id yet.
InitTags ==
    /\ specZone = <<"z", "example", "com">>
    /\ hostedZones = <<[Id |-> 1, Name |-> Dotted(specZone), CallerReference |-> UID]>>
    /\ recordSets = [NoRecordSets EXCEPT ![1] = ApexRecordSets(Dotted(specZone))]
    /\ \E n \in UserTagCounts : additionalTags = [i \in 1..n |-> UserTag(i)]
    /\ \E held \in HeldCounts(Len(additionalTags)), changed \in BOOLEAN,
          stale \in StaleTagCounts, order \in {"expectedFirst", "staleFirst", "reversed"} :
            zoneTags = [NoTags EXCEPT ![1] =
                            ProviderTags(expectedTags, held, changed, stale, order)]
    /\ statusZoneID \in {NilID, 1}
    /\ statusConditions = <<>>
    /\ hostedZone = NoZone
    /\ currentHostedZoneTags = <<>>
    /\ calls = <<>>
    /\ result = NoResult
    /\ pc = "idle"
    /\ listInput = NoListInput
    /\ listOutput = NoListOutput
    /\ ops = 0
    /\ arrays = <<>>
    /\ builders = <<>>
    /\ built = NoBuild
    /\ writes = 0

SpecTags == InitTags /\ [][Next]_vars

-----------------------------------------------------------------------------
(* Properties of the tag sync, checked under SpecTags *)

TagChangeCalls == SelectSeq(calls, LAMBDA c : c.op = "ChangeTagsForResource")

\* The operation that ran last reached syncTags.
AfterSync == result.op \in {"UpdateMetadata", "Create"} /\ hostedZone # NoZone

\* The two tag lists hold the same tags, in any order.
SameTags(a, b) ==
    /\ Len(a) = Len(b)
    /\ {a[i] : i \in 1..Len(a)} = {b[i] : i \in 1..Len(b)}

\* C3: a tag sync that finds the zone's current tags equal to the expected
\* tags (the ownership tag and every declared tag) issues no
\* ChangeTagsForResource call and returns success.
C3_NoCallWhenInSync ==
    (AfterSync /\ SameTags(currentHostedZoneTags, expectedTags)) =>
        /\ TagChangeCalls = <<>>
        /\ result.err = NoError

\* A sync over three or more tags that match in another order.
C3_Witness ==
    /\ AfterSync
    /\ SameTags(currentHostedZoneTags, expectedTags)
    /\ Len(expectedTags) >= 3
    /\ currentHostedZoneTags # expectedTags

\* C4 as stated: once a tag sync has returned success, the sync of the next
\* pass, run on the re-read tags with the same expected tags, issues no
\* ChangeTagsForResource call.
C4_SecondSyncIssuesNoCall ==
    (AfterSync /\ result.resync) =>
        /\ TagChangeCalls = <<>>
        /\ result.err = NoError

\* C5: every ChangeTagsForResource call of a sync carries at most 10
\* additions and at most 10 removal keys, and never neither.
C5_SegmentsWithinLimit ==
    \A i \in 1..Len(calls) :
        calls[i].op = "ChangeTagsForResource" =>
            /\ Len(calls[i].AddTags) <= 10
            /\ Len(calls[i].RemoveTagKeys) <= 10
            /\ Len(calls[i].AddTags) + Len(calls[i].RemoveTagKeys) > 0

\* A sync of more than 10 additions and more than 10 removals: a full call
\* followed by a call with the rest.
C5_Witness ==
    /\ AfterSync
    /\ result.err = NoError
    /\ Len(TagChangeCalls) = 2
    /\ Len(TagChangeCalls[1].AddTags) = 10
    /\ Len(TagChangeCalls[1].RemoveTagKeys) = 10
    /\ Len(TagChangeCalls[2].AddTags) > 0
    /\ Len(TagChangeCalls[2].RemoveTagKeys) > 0

\* C21: a tag sync with A tags to add and D keys to delete issues its
\* ChangeTagsForResource calls in order, the k-th (from 0) with the tags
\* 10k..10k+9 to add and the keys 10k..10k+9 to delete that exist; a call
\* that fails is the last one and its error is returned; a sync none of
\* whose calls failed has issued ceil(max(A, D) / 10) calls and returns
\* success.
C21_CallsCarryStridesOfTen ==
    (result.op = "UpdateMetadata" /\ hostedZone # NoZone) =>
        LET toAdd == result.toAdd
            keys == [j \in 1..Len(result.toDelete) |-> result.toDelete[j].Key]
            longest == IF Len(toAdd) >= Len(keys) THEN Len(toAdd) ELSE Len(keys)
            n == (longest + 9) \div 10
            stride(list, k) ==
                [j \in 1..(IF Len(list) >= 10 * k + 10 THEN 10
                           ELSE IF Len(list) > 10 * k THEN Len(list) - 10 * k
                           ELSE 0) |-> list[10 * k + j]]
        IN  /\ Len(calls) <= n
            /\ \A k \in 1..Len(calls) :
                    /\ calls[k].op = "ChangeTagsForResource"
                    /\ calls[k].AddTags = stride(toAdd, k - 1)
                    /\ calls[k].RemoveTagKeys = stride(keys, k - 1)
                    /\ calls[k].err # NoError =>
                            k = Len(calls) /\ result.err = calls[k].err
            /\ (Len(calls) = 0 \/ calls[Len(calls)].err = NoError) =>
                    Len(calls) = n /\ result.err = NoError

\* A sync with twelve tags to add and one key to delete: two calls, the
\* second with two tags to add and no key.
C21_Witness ==
    /\ result.op = "UpdateMetadata"
    /\ result.err = NoError
    /\ Len(result.toAdd) = 12
    /\ Len(result.toDelete) = 1
    /\ Len(calls) = 2
    /\ Len(calls[2].AddTags) = 2
    /\ calls[2].RemoveTagKeys = <<>>

-----------------------------------------------------------------------------
(* The passes of one resource against a provider that holds other zones *)

\* The caller reference of the zones other resources created.
ForeignReference == "other"

\* The zones the provider holds before the resource's first pass: up to
\* MaxZones - 1 zones of other resources, listed in name order, each
\* tagged with this resource's ownership tag or not tagged at all.
InitialListings ==
    UNION {{[i \in 1..k |-> [Id |-> i, Name |-> ZoneNames[rank[i]],
                             CallerReference |-> ForeignReference]] :
                rank \in {r \in [1..k -> 1..Len(ZoneNames)] :
                            \A i \in 1..k, j \in 1..k : i < j => r[i] <= r[j]}} :
           k \in 0..(MaxZones - 1)}

Init ==
    /\ specZone \in DeclaredZones
    /\ hostedZones \in InitialListings
    /\ \E tagged \in SUBSET (1..Len(hostedZones)) :
            zoneTags = [id \in ZoneIDs |->
                            IF id \in tagged
                            THEN <<[Key |-> hiveDNSZoneAWSTag, Value |-> OwnerValue]>>
                            ELSE <<>>]
    /\ recordSets = [id \in ZoneIDs |->
                        IF id <= Len(hostedZones)
                        THEN ApexRecordSets(hostedZones[id].Name) ELSE {}]
    /\ \E n \in {0, 1} : additionalTags = [i \in 1..n |-> UserTag(i)]
    /\ statusZoneID = NilID
    /\ statusConditions = <<>>
    /\ hostedZone = NoZone
    /\ currentHostedZoneTags = <<>>
    /\ calls = <<>>
    /\ result = NoResult
    /\ pc = "idle"
    /\ listInput = NoListInput
    /\ listOutput = NoListOutput
    /\ ops = 0
    /\ arrays = <<>>
    /\ builders = <<>>
    /\ built = NoBuild
    /\ writes = 0

Spec == Init /\ [][Next]_vars

-----------------------------------------------------------------------------
(* Properties of Create, checked under Spec *)

\* The zones on the provider that a Create of this resource created.
CreatedZones ==
    {i \in 1..Len(hostedZones) : hostedZones[i].CallerReference # ForeignReference}

\* C1: over any sequence of passes with the same UID and spec, with any
\* provider call of any pass failing and any create response lost, the
\* provider never holds more than one zone created for the resource.
C1_AtMostOneZoneCreated == Cardinality(CreatedZones) <= 1

\* A pass whose Create found the zone that an earlier pass had created
\* without learning of it.
C1_Witness ==
    /\ result.op = "Create"
    /\ result.err = NoError
    /\ ops = 4
    /\ Len(calls) >= 2
    /\ calls[2].op = "ListHostedZonesByName"
    /\ Cardinality(CreatedZones) = 1

\* The zones of the listing with the declared name and the resource's UID
\* as caller reference.
OwnZones ==
    {i \in 1..Len(hostedZones) :
        /\ hostedZones[i].Name = Dotted(specZone)
        /\ hostedZones[i].CallerReference = "uid-1"}

\* CreateHostedZone answered that the zone exists already, and no call of
\* the Create that ran last failed for another reason.
AfterCreateOfExistingZone ==
    /\ result.op = "Create"
    /\ Len(calls) >= 2
    /\ calls[2].op = "ListHostedZonesByName"
    /\ result.err \notin FailErrors

\* C2: when CreateHostedZone reports that the zone exists already and the
\* listing holds a zone of the declared name with the UID as caller
\* reference, Create succeeds, caches that zone and records its id in the
\* status, with one CreateHostedZone call, whatever other zones of that
\* name precede it in the listing.
C2_ExistingZoneResolved ==
    (AfterCreateOfExistingZone /\ OwnZones # {}) =>
        /\ result.err = NoError
        /\ \E i \in OwnZones : hostedZone = hostedZones[i] /\ statusZoneID = hostedZone.Id
        /\ Len(SelectSeq(calls, LAMBDA c : c.op = "CreateHostedZone")) = 1

-----------------------------------------------------------------------------
(* Delete and the record sweep. Each provider call of a Delete is a step   *)
(* of its own, so that another writer's changes can fall between them.     *)

\* The apex of the resource's zone and a name below it.
Apex == <<"z", "example", "com", "">>
Below == <<"www", "z", "example", "com", "">>

\* The record sets a zone of that name can hold, in the provider's
\* listing order (name, type, set identifier).
RecordOrder ==
    << [Name |-> Apex, Type |-> "A", SetIdentifier |-> ""],
       [Name |-> Apex, Type |-> "NS", SetIdentifier |-> ""],
       [Name |-> Apex, Type |-> "SOA", SetIdentifier |-> ""],
       [Name |-> Below, Type |-> "A", SetIdentifier |-> "blue"],
       [Name |-> Below, Type |-> "A", SetIdentifier |-> "green"],
       [Name |-> Below, Type |-> "NS", SetIdentifier |-> ""],
       [Name |-> Below, Type |-> "SOA", SetIdentifier |-> ""] >>

RecordRank(r) == CHOOSE i \in 1..Len(RecordOrder) : RecordOrder[i] = r

\* The length of a page of ListResourceRecordSets.
RecordsPageSize == 2

\* The zone's record sets from the cursor on, in listing order.
RecordsFrom(id, start) ==
    SelectSeq(RecordOrder, LAMBDA r :
        /\ r \in recordSets[id]
        /\ start # NoCursor => RecordRank(r) >= RecordRank(start))

\* ListResourceRecordSets: a page, whether more follow, and the cursor of
\* the record set that follows.
ListResourceRecordSets(input) ==
    LET rest == RecordsFrom(input.HostedZoneId, input.Start)
        n == min(RecordsPageSize, Len(rest))
    IN  [ResourceRecordSets |-> SubSeq(rest, 1, n),
         IsTruncated |-> Len(rest) > n,
         Next |-> IF Len(rest) > n THEN rest[n + 1] ELSE NoCursor]

\* A record set the sweep compares by the undotted zone name.
IsProtectedUndotted(recordSet) ==
    /\ recordSet.Name = specZone
    /\ (recordSet.Type = "NS" \/ recordSet.Type = "SOA")

\* The two record sets that are created with the zone and are left alone.
IsProtected(recordSet) ==
    /\ recordSet.Name = Dotted(specZone)
    /\ (recordSet.Type = "NS" \/ recordSet.Type = "SOA")

\* Deletions that hold the first record set of the page only.
PageChangesFirstOnly(page) ==
    LET all == SelectSeq(page, LAMBDA r : ~IsProtected(r))
    IN  IF Len(all) > 1 THEN <<all[1]>> ELSE all

\* The deletions built from one page.
PageChanges(page) == SelectSeq(page, LAMBDA r : ~IsProtected(r))

HostedZoneNotEmpty == AWSError("HostedZoneNotEmpty", "The hosted zone contains record sets")
InvalidChangeBatch == AWSError("InvalidChangeBatch", "a record set to delete was not found")

\* What Delete returns after DeleteHostedZone, with nothing returned for a
\* zone that is not empty.
DeleteReturnNotEmptyAsSuccess(err) ==
    [err |-> IF IsAWSErr(err) /\ err.Code = "HostedZoneNotEmpty" THEN NoError ELSE err,
     logLevel |-> IF err = NoError THEN "none"
                  ELSE IF IsAWSErr(err) /\ err.Code = "HostedZoneNotEmpty" THEN "info"
                  ELSE "error"]

\* What Delete returns after DeleteHostedZone, and the level it logs the
\* error at.
DeleteReturn(err) ==
    [err |-> err,
     logLevel |-> IF err = NoError THEN "none"
                  ELSE IF IsAWSErr(err) /\ err.Code = "HostedZoneNotEmpty" THEN "info"
                  ELSE "error"]

Returned(err, level) ==
    [op |-> "Delete", err |-> err, returned |-> TRUE, logLevel |-> level, synced |-> FALSE]

\* A Delete that starts its sweep without looking at the cached zone.
DeleteStartUnchecked ==
    /\ pc = "idle"
    /\ ops < MaxOps
    /\ calls' = <<>>
    /\ result' = [op |-> "Delete", err |-> NoError, returned |-> FALSE,
                  logLevel |-> "none", synced |-> FALSE]
    /\ pc' = "list"
    /\ listInput' = [HostedZoneId |-> statusZoneID, Start |-> NoCursor]
    /\ listOutput' = NoListOutput
    /\ ops' = ops + 1
    /\ UNCHANGED <<providerVars, specVars, builderVars, writes, statusZoneID, statusConditions,
                   actuatorVars>>

\* Delete up to its first provider call.
DeleteStart ==
    /\ pc = "idle"
    /\ ops < MaxOps
    /\ calls' = <<>>
    /\ IF hostedZone = NoZone
       THEN /\ result' = Returned(PlainError("hostedZone is unpopulated"), "none")
            /\ UNCHANGED deleteVars
       ELSE /\ result' = [op |-> "Delete", err |-> NoError, returned |-> FALSE,
                          logLevel |-> "none", synced |-> FALSE]
            /\ pc' = "list"
            /\ listInput' = [HostedZoneId |-> statusZoneID, Start |-> NoCursor]
            /\ listOutput' = NoListOutput
    /\ ops' = ops + 1
    /\ UNCHANGED <<providerVars, specVars, builderVars, writes, statusZoneID, statusConditions,
                   actuatorVars>>

\* A sweep after whose last page the zone is not deleted.
AfterPageWithoutDeleteZone(out) ==
    IF out.IsTruncated
    THEN /\ pc' = "list"
         /\ listInput' = [listInput EXCEPT !.Start = out.Next]
    ELSE /\ pc' = "idle"
         /\ UNCHANGED listInput

\* The sweep moves on from a page: to the next page, or to the deletion of
\* the zone when the page was the last.
AfterPage(out) ==
    IF out.IsTruncated
    THEN /\ pc' = "list"
         /\ listInput' = [listInput EXCEPT !.Start = out.Next]
    ELSE /\ pc' = "deleteZone"
         /\ UNCHANGED listInput

\* One ListResourceRecordSets call and the building of the page's changes.
SweepList(err) ==
    /\ pc = "list"
    /\ LET gone == ~ZoneExists(listInput.HostedZoneId)
           e == IF err = NoError /\ gone THEN NoSuchHostedZone ELSE err
           out == ListResourceRecordSets(listInput)
           changes == PageChanges(out.ResourceRecordSets)
       IN  IF e # NoError
           THEN /\ calls' = Append(calls, [op |-> "ListResourceRecordSets",
                                            HostedZoneId |-> listInput.HostedZoneId,
                                            Start |-> listInput.Start,
                                            ResourceRecordSets |-> <<>>,
                                            IsTruncated |-> FALSE, Next |-> NoCursor,
                                            err |-> e])
                /\ result' = Returned(e, "none")
                /\ pc' = "idle"
                /\ UNCHANGED <<listInput, listOutput>>
           ELSE /\ calls' = Append(calls, [op |-> "ListResourceRecordSets",
                                            HostedZoneId |-> listInput.HostedZoneId,
                                            Start |-> listInput.Start,
                                            ResourceRecordSets |-> out.ResourceRecordSets,
                                            IsTruncated |-> out.IsTruncated,
                                            Next |-> out.Next, err |-> NoError])
                /\ listOutput' = [IsTruncated |-> out.IsTruncated, Next |-> out.Next,
                                  changes |-> changes]
                /\ UNCHANGED result
                /\ IF Len(changes) > 0
                   THEN pc' = "change" /\ UNCHANGED listInput
                   ELSE AfterPage(out)
    /\ UNCHANGED <<providerVars, specVars, builderVars, writes, statusZoneID, statusConditions,
                   actuatorVars, ops>>

\* A sweep that goes on after a ChangeResourceRecordSets call that failed.
SweepChangeIgnoringError(err) ==
    /\ pc = "change"
    /\ LET id == listInput.HostedZoneId
           changes == listOutput.changes
           e == IF err # NoError THEN err
                ELSE IF ~ZoneExists(id) THEN NoSuchHostedZone
                ELSE IF \E i \in 1..Len(changes) : changes[i] \notin recordSets[id]
                THEN InvalidChangeBatch
                ELSE NoError
       IN  /\ calls' = Append(calls, [op |-> "ChangeResourceRecordSets",
                                      Changes |-> changes, HostedZoneId |-> id,
                                      err |-> e])
           /\ IF e # NoError
              THEN /\ UNCHANGED <<recordSets, result>>
                   /\ AfterPage(listOutput)
              ELSE /\ recordSets' = [recordSets EXCEPT ![id] =
                                        @ \ {changes[i] : i \in 1..Len(changes)}]
                   /\ UNCHANGED result
                   /\ AfterPage(listOutput)
    /\ UNCHANGED <<hostedZones, zoneTags, specVars, builderVars, writes, statusZoneID,
                   statusConditions,
                   actuatorVars, listOutput, ops>>

\* One ChangeResourceRecordSets call deleting the page's record sets; the
\* provider refuses the whole batch when one of them is not there.
SweepChange(err) ==
    /\ pc = "change"
    /\ LET id == listInput.HostedZoneId
           changes == listOutput.changes
           e == IF err # NoError THEN err
                ELSE IF ~ZoneExists(id) THEN NoSuchHostedZone
                ELSE IF \E i \in 1..Len(changes) : changes[i] \notin recordSets[id]
                THEN InvalidChangeBatch
                ELSE NoError
       IN  /\ calls' = Append(calls, [op |-> "ChangeResourceRecordSets",
                                      Changes |-> changes, HostedZoneId |-> id,
                                      err |-> e])
           /\ IF e # NoError
              THEN /\ result' = Returned(e, "none")
                   /\ pc' = "idle"
                   /\ UNCHANGED <<recordSets, listInput>>
              ELSE /\ recordSets' = [recordSets EXCEPT ![id] =
                                        @ \ {changes[i] : i \in 1..Len(changes)}]
                   /\ UNCHANGED result
                   /\ AfterPage(listOutput)
    /\ UNCHANGED <<hostedZones, zoneTags, specVars, builderVars, writes, statusZoneID,
                   statusConditions,
                   actuatorVars, listOutput, ops>>

\* The DeleteHostedZone call that ends Delete. The provider deletes a zone
\* that holds nothing but its two apex record sets.
DeleteZone(err) ==
    /\ pc = "deleteZone"
    /\ LET id == hostedZone.Id
           e == IF err # NoError THEN err
                ELSE IF ~ZoneExists(id) THEN NoSuchHostedZone
                ELSE IF recordSets[id] # ApexRecordSets(ZoneByID(id).Name)
                THEN HostedZoneNotEmpty
                ELSE NoError
           r == DeleteReturn(e)
       IN  /\ calls' = Append(calls, [op |-> "DeleteHostedZone", Id |-> id, err |-> e])
           /\ result' = Returned(r.err, r.logLevel)
           /\ IF e = NoError
              THEN /\ hostedZones' = SelectSeq(hostedZones, LAMBDA z : z.Id # id)
                   /\ zoneTags' = [zoneTags EXCEPT ![id] = <<>>]
                   /\ recordSets' = [recordSets EXCEPT ![id] = {}]
              ELSE UNCHANGED providerVars
    /\ pc' = "idle"
    /\ UNCHANGED <<specVars, builderVars, writes, statusZoneID, statusConditions, actuatorVars,
                   listInput,
                   listOutput, ops>>

\* The additions of the other writer are counted up to MaxWrites.
MaxWrites == 2

\* Another writer adds a record set to the zone, at any moment.
ExternalWriter(id, r) ==
    /\ ZoneExists(id)
    /\ r \notin recordSets[id]
    /\ recordSets' = [recordSets EXCEPT ![id] = @ \cup {r}]
    /\ writes' = IF writes < MaxWrites THEN writes + 1 ELSE writes
    /\ UNCHANGED <<hostedZones, zoneTags, specVars, builderVars, statusZoneID, statusConditions,
                   actuatorVars, calls, result, deleteVars, ops>>

PassDelete ==
    /\ result.op = "Refresh" /\ result.err = NoError /\ hostedZone # NoZone
    /\ DeleteStart

Sweep ==
    \E err \in {NoError} \cup FailErrors : SweepList(err) \/ SweepChange(err) \/ DeleteZone(err)

Writer ==
    \E r \in {RecordOrder[i] : i \in 1..Len(RecordOrder)} : ExternalWriter(1, r)

NextDelete == PassRefresh \/ PassDelete \/ Sweep \/ Writer \/ NewAWSActuator

\* The resource's zone with its two apex record sets and any of the other
\* record sets, its id in the status.
InitDelete ==
    /\ specZone \in DeclaredZones
    /\ hostedZones = <<[Id |-> 1, Name |-> Apex, CallerReference |-> UID]>>
    /\ zoneTags = [NoTags EXCEPT ![1] = <<[Key |-> hiveDNSZoneAWSTag, Value |-> OwnerValue]>>]
    /\ \E others \in SUBSET {RecordOrder[i] : i \in 1..Len(RecordOrder)} :
            recordSets = [NoRecordSets EXCEPT ![1] = ApexRecordSets(Apex) \cup others]
    /\ additionalTags = <<>>
    /\ statusZoneID = 1
    /\ statusConditions = <<>>
    /\ hostedZone = NoZone
    /\ currentHostedZoneTags = <<>>
    /\ calls = <<>>
    /\ result = NoResult
    /\ pc = "idle"
    /\ listInput = NoListInput
    /\ listOutput = NoListOutput
    /\ ops = 0
    /\ arrays = <<>>
    /\ builders = <<>>
    /\ built = NoBuild
    /\ writes = 0

SpecDelete == InitDelete /\ [][NextDelete]_vars

-----------------------------------------------------------------------------
(* Properties of Delete and the record sweep, checked under SpecDelete *)

\* The apex NS and SOA record sets of the resource's zone.
ApexNSOrSOA(r) ==
    r.Name = <<"z", "example", "com", "">> /\ r.Type \in {"NS", "SOA"}

IsList(i) == calls[i].op = "ListResourceRecordSets"
IsChange(i) == calls[i].op = "ChangeResourceRecordSets"

\* C6: in a record sweep no deletion batch holds the apex NS or SOA record
\* set; each batch is made of every other record set of the page listed
\* just before it, record sets of those types below the apex included, and
\* each page with such record sets gets its batch; each page is asked for
\* with the cursor the page before it returned, and a sweep that met no
\* error has listed pages until the provider reported no further page.
C6_SweepDeletesAllButApexRecords ==
    /\ \A i \in 1..Len(calls) :
            IsChange(i) =>
                /\ \A k \in 1..Len(calls[i].Changes) : ~ApexNSOrSOA(calls[i].Changes[k])
                /\ i > 1 /\ IsList(i - 1)
                /\ calls[i].Changes
                    = SelectSeq(calls[i - 1].ResourceRecordSets, LAMBDA r : ~ApexNSOrSOA(r))
                /\ calls[i].Changes # <<>>
    /\ \A i \in 1..Len(calls) :
            (IsList(i) /\ \E k \in 1..Len(calls[i].ResourceRecordSets) :
                                ~ApexNSOrSOA(calls[i].ResourceRecordSets[k])) =>
                IF i = Len(calls) THEN pc = "change" ELSE IsChange(i + 1)
    /\ \A i \in 1..Len(calls) :
            IsList(i) =>
                LET before == {j \in 1..(i - 1) : IsList(j)}
                IN  IF before = {} THEN calls[i].Start = NoCursor
                    ELSE LET j == CHOOSE j \in before : \A k \in before : k <= j
                         IN  calls[j].IsTruncated /\ calls[i].Start = calls[j].Next
    /\ pc = "deleteZone" =>
            LET lists == {j \in 1..Len(calls) : IsList(j)}
            IN  /\ lists # {}
                /\ \A j \in lists : (\A k \in lists : k <= j) => ~calls[j].IsTruncated

\* A sweep of three pages that met no error: a page with an apex record
\* set and another one, and a batch with the NS record set below the apex.
C6_Witness ==
    /\ pc = "deleteZone"
    /\ Cardinality({j \in 1..Len(calls) : IsList(j)}) >= 3
    /\ \E i \in 1..Len(calls) :
            /\ IsList(i)
            /\ \E k \in 1..Len(calls[i].ResourceRecordSets) :
                    ApexNSOrSOA(calls[i].ResourceRecordSets[k])
            /\ \E k \in 1..Len(calls[i].ResourceRecordSets) :
                    ~ApexNSOrSOA(calls[i].ResourceRecordSets[k])
    /\ \E i \in 1..Len(calls) :
            /\ IsChange(i)
            /\ \E k \in 1..Len(calls[i].Changes) :
                    calls[i].Changes[k].Type = "NS" /\ calls[i].Changes[k].Name # Apex

\* Delete has returned after its DeleteHostedZone call.
AfterDeleteHostedZone ==
    /\ result.op = "Delete"
    /\ result.returned
    /\ Len(calls) > 0
    /\ calls[Len(calls)].op = "DeleteHostedZone"

\* C7 as stated: when DeleteHostedZone reports that the zone is not empty,
\* Delete does not fail; with any other DeleteHostedZone error Delete
\* fails with that error.
C7_NotEmptyIsNotAFailure ==
    AfterDeleteHostedZone =>
        IF calls[Len(calls)].err.Code = "HostedZoneNotEmpty"
        THEN result.err = NoError
        ELSE result.err = calls[Len(calls)].err

\* C7 amended: Delete returns every DeleteHostedZone error, the not-empty
\* one included; that one is logged at info level, any other at error
\* level, and the zone stays on the provider.
C7_NotEmptyIsReturnedAtInfoLevel ==
    AfterDeleteHostedZone =>
        LET e == calls[Len(calls)].err
        IN  /\ result.err = e
            /\ e # NoError =>
                    /\ result.logLevel
                        = IF e.kind = "awserr" /\ e.Code = "HostedZoneNotEmpty"
                          THEN "info" ELSE "error"
                    /\ \E i \in 1..Len(hostedZones) : hostedZones[i].Id = calls[Len(calls)].Id

\* A Delete whose sweep met no error and whose DeleteHostedZone found a
\* record set added in the meantime.
C7_Witness ==
    /\ AfterDeleteHostedZone
    /\ calls[Len(calls)].err.Code = "HostedZoneNotEmpty"
    /\ result.logLevel = "info"
    /\ result.err.Code = "HostedZoneNotEmpty"

-----------------------------------------------------------------------------
(* Refresh against any provider listing: zones of the declared name and of *)
(* other names, tagged or not, ids the tag index holds for zones that are  *)
(* gone, and a status that holds any id or none.                           *)

\* Up to MaxZones zones in name order, their ids in listing order.
RefreshListings ==
    UNION {{[i \in 1..k |-> [Id |-> i, Name |-> ZoneNames[rank[i]],
                             CallerReference |-> ForeignReference]] :
                rank \in {r \in [1..k -> 1..Len(ZoneNames)] :
                            \A i \in 1..k, j \in 1..k : i < j => r[i] <= r[j]}} :
           k \in 0..MaxZones}

InitRefresh ==
    /\ specZone \in DeclaredZones
    /\ hostedZones \in RefreshListings
    /\ \E tagged \in SUBSET ZoneIDs :
            zoneTags = [id \in ZoneIDs |->
                            IF id \in tagged
                            THEN <<[Key |-> hiveDNSZoneAWSTag, Value |-> OwnerValue]>>
                            ELSE <<>>]
    /\ recordSets = [id \in ZoneIDs |->
                        IF id <= Len(hostedZones)
                        THEN ApexRecordSets(hostedZones[id].Name) ELSE {}]
    /\ additionalTags = <<>>
    /\ statusZoneID \in {NilID} \cup ZoneIDs
    /\ statusConditions = <<>>
    /\ hostedZone = NoZone
    /\ currentHostedZoneTags = <<>>
    /\ calls = <<>>
    /\ result = NoResult
    /\ pc = "idle"
    /\ listInput = NoListInput
    /\ listOutput = NoListOutput
    /\ ops = 0
    /\ arrays = <<>>
    /\ builders = <<>>
    /\ built = NoBuild
    /\ writes = 0

NextRefresh == PassRefresh \/ Exists \/ NewAWSActuator

SpecRefresh == InitRefresh /\ [][NextRefresh]_vars

-----------------------------------------------------------------------------
(* Properties of Refresh, checked under SpecRefresh *)

AfterRefresh == result.op = "Refresh"

SearchCalls == SelectSeq(calls, LAMBDA c : c.op = "GetResources")
FetchCalls == SelectSeq(calls, LAMBDA c : c.op = "GetHostedZone")

\* The zone of that id is on the provider under the declared name.
Matches(id) ==
    \E i \in 1..Len(hostedZones) :
        /\ hostedZones[i].Id = id
        /\ hostedZones[i].Name = (IF specZone[Len(specZone)] = "" THEN specZone
                                  ELSE specZone \o <<"">>)

Gone(id) == \A i \in 1..Len(hostedZones) : hostedZones[i].Id # id

\* The ids a search by the ownership tag returns: those the index holds
\* for zones that are gone, then the tagged zones in listing order.
Candidates ==
    LET tagged(id) == \E i \in 1..Len(zoneTags[id]) :
                            zoneTags[id][i] = [Key |-> "hive.openshift.io/dnszone",
                                               Value |-> "a/b"]
        stale == SelectSeq([i \in 1..MaxZones |-> i], LAMBDA id : tagged(id) /\ Gone(id))
        live == SelectSeq(hostedZones, LAMBDA z : tagged(z.Id))
    IN  stale \o [i \in 1..Len(live) |-> live[i].Id]

\* C13: a Refresh that finds a zone id in the status issues no search by
\* tag and fetches that zone and no other, whether the zone is found, is
\* gone, has another name or the fetch fails; the only call that can follow
\* is the listing of that zone's tags.
C13_CachedIdentifierSkipsSearch ==
    (AfterRefresh /\ result.before # NilID) =>
        /\ SearchCalls = <<>>
        /\ Len(FetchCalls) = 1
        /\ calls[1].op = "GetHostedZone"
        /\ calls[1].Id = result.before
        /\ \A i \in 2..Len(calls) :
                calls[i].op = "ListTagsForResource" /\ calls[i].ResourceId = result.before

\* A Refresh by the id of a zone that the tag search would have found
\* under the declared name, while the zone of the status has another name.
C13_Witness ==
    /\ AfterRefresh
    /\ result.before # NilID
    /\ ~Gone(result.before)
    /\ ~Matches(result.before)
    /\ \E i \in 1..Len(Candidates) : Matches(Candidates[i])
    /\ hostedZone = NoZone
    /\ result.err = NoError

\* The ids Refresh has to fetch: the id of the status, or what the search
\* returns.
ToFetch == IF result.before # NilID THEN <<result.before>> ELSE Candidates

IsNotFound(err) == err.kind = "awserr" /\ err.Code = "NoSuchHostedZone"

\* C14: Refresh fetches the candidates in order; a fetch answered with
\* zone-not-found is followed by the fetch of the next candidate when there
\* is one and is not what Refresh returns; a fetch that fails with any
\* other error is the last call of Refresh, which returns that error.
C14_NotFoundSkipsOtherErrorsAbort ==
    AfterRefresh =>
        /\ Len(FetchCalls) <= Len(ToFetch)
        /\ \A j \in 1..Len(FetchCalls) :
                /\ FetchCalls[j].Id = ToFetch[j]
                /\ IsNotFound(FetchCalls[j].err) =>
                        /\ j < Len(ToFetch) => Len(FetchCalls) > j
                        /\ ~IsNotFound(result.err)
                /\ (FetchCalls[j].err # NoError /\ ~IsNotFound(FetchCalls[j].err)) =>
                        /\ j = Len(FetchCalls)
                        /\ calls[Len(calls)] = FetchCalls[j]
                        /\ result.err = FetchCalls[j].err

\* Three candidates: the first is gone and skipped, the fetch of the second
\* fails with another error, the third is never fetched.
C14_Witness ==
    /\ AfterRefresh
    /\ result.before = NilID
    /\ Len(Candidates) = 3
    /\ Len(FetchCalls) = 2
    /\ IsNotFound(FetchCalls[1].err)
    /\ FetchCalls[2].err # NoError
    /\ ~IsNotFound(FetchCalls[2].err)
    /\ result.err = FetchCalls[2].err

\* No call of the Refresh that ran last failed, and there was no zone to
\* resolve: the search returned nothing or only zones that are gone or
\* have another name, or the zone of the status's id is gone.
ResolvesNoZone ==
    /\ AfterRefresh
    /\ \A i \in 1..Len(calls) : calls[i].err = NoError \/ IsNotFound(calls[i].err)
    /\ IF result.before = NilID
       THEN \A i \in 1..Len(Candidates) : ~Matches(Candidates[i])
       ELSE Gone(result.before)

MatchingCandidates == {i \in 1..Len(Candidates) : Matches(Candidates[i])}

\* C16: a Refresh by tag search whose search and fetches met no error
\* other than zone-not-found fetches every candidate, in the order the
\* search returned them, and retains the last candidate of the declared
\* name: that zone is cached and its id is in the status.
C16_LastMatchingCandidateWins ==
    (/\ AfterRefresh
     /\ result.before = NilID
     /\ Len(Candidates) >= 2
     /\ \A i \in 1..Len(calls) :
            calls[i].op \in {"GetResources", "GetHostedZone"} =>
                calls[i].err = NoError \/ IsNotFound(calls[i].err)) =>
        /\ [j \in 1..Len(FetchCalls) |-> FetchCalls[j].Id] = Candidates
        /\ MatchingCandidates # {} =>
                LET last == CHOOSE i \in MatchingCandidates :
                                \A k \in MatchingCandidates : k <= i
                IN  /\ hostedZone.Id = Candidates[last]
                    /\ statusZoneID = Candidates[last]
                    /\ \E i \in 1..Len(hostedZones) : hostedZones[i] = hostedZone

\* Three candidates of which the first two have the declared name: all
\* three are fetched and the second is retained.
C16_Witness ==
    /\ AfterRefresh
    /\ result.before = NilID
    /\ result.err = NoError
    /\ Len(Candidates) = 3
    /\ MatchingCandidates = {1, 2}
    /\ Len(FetchCalls) = 3
    /\ hostedZone.Id = Candidates[2]

-----------------------------------------------------------------------------
(* GetNameServers, and the operations of an actuator in any order *)

\* A nil []string and the list of the values of a record set.
NoNameServers == [nil |-> TRUE, values |-> <<>>]
NameServers(values) == [nil |-> FALSE, values |-> values]

\* What the provider can answer the query for the apex NS record set with:
\* no record set, one, or two, of either name and type.
NameServerValues == {<<"ns-2.example.net", "ns-1.example.net">>, <<"ns-1.example.net">>}

ListedRecordSets ==
    {[Name |-> n, Type |-> t, ResourceRecords |-> v] :
        n \in {Apex, Below}, t \in {"NS", "SOA"}, v \in NameServerValues}

NameServerResponses ==
    {<<>>} \cup {<<r>> : r \in ListedRecordSets}
           \cup {<<r, [Name |-> Apex, Type |-> "NS",
                       ResourceRecords |-> <<"ns-1.example.net">>]>> :
                    r \in ListedRecordSets}

\* A check that lets a response of several record sets through.
RecordSetCountAtLeastOne(n) == n >= 1

\* len(resp.ResourceRecordSets) != 1 is a failure.
RecordSetCountOK(n) == n = 1

\* GetNameServers as a whole, for the response `resp` of its query.
GetNameServersOutcome(fail, resp) ==
    LET call == [op |-> "ListResourceRecordSets", HostedZoneId |-> hostedZone.Id,
                 StartRecordType |-> "NS", StartRecordName |-> specZone,
                 MaxItems |-> "1",
                 ResourceRecordSets |-> IF fail.at = 1 THEN <<>> ELSE resp,
                 err |-> IF fail.at = 1 THEN fail.err ELSE NoError]
    IN  IF hostedZone = NoZone
        THEN [nameServers |-> NoNameServers, calls |-> <<>>,
              err |-> PlainError("hostedZone is unpopulated")]
        ELSE IF fail.at = 1
        THEN [nameServers |-> NoNameServers, calls |-> <<call>>, err |-> fail.err]
        ELSE IF ~RecordSetCountOK(Len(resp))
        THEN [nameServers |-> NoNameServers, calls |-> <<call>>,
              err |-> PlainError("unexpected number of recordsets returned: "
                                    \o ToString(Len(resp)))]
        ELSE IF resp[1].Type # "NS"
        THEN [nameServers |-> NoNameServers, calls |-> <<call>>,
              err |-> PlainError("name server record not found")]
        ELSE IF resp[1].Name # specZone \o <<"">>
        THEN [nameServers |-> NoNameServers, calls |-> <<call>>,
              err |-> PlainError("name server record not found for domain")]
        ELSE [nameServers |-> NameServers(resp[1].ResourceRecords), calls |-> <<call>>,
              err |-> NoError]

GetNameServers(fail, resp) ==
    /\ pc = "idle"
    /\ ops < MaxOps
    /\ LET r == GetNameServersOutcome(fail, resp)
       IN  /\ calls' = r.calls
           /\ result' = [op |-> "GetNameServers", err |-> r.err,
                         nameServers |-> r.nameServers, synced |-> result.synced]
    /\ ops' = ops + 1
    /\ UNCHANGED <<providerVars, specVars, builderVars, writes, statusZoneID, statusConditions,
                   actuatorVars,
                   deleteVars>>

\* The operations a caller can run on an actuator: Refresh as the first of
\* a new actuator, the others at any time.
NextOperations ==
    \/ PassRefresh
    \/ \E pos \in 1..(MaxZones + 1), fail \in Fails, lost \in BOOLEAN :
            Create(pos, fail, lost)
    \/ \E fail \in Fails : UpdateMetadata(fail)
    \/ \E fail \in Fails, resp \in NameServerResponses : GetNameServers(fail, resp)
    \/ Exists
    \/ DeleteStart
    \/ Sweep
    \/ NewAWSActuator

\* The resource's zone, tagged as the resource's or not, holding its apex
\* record sets and possibly one more, with its id in the status or not.
InitOperations ==
    /\ specZone \in DeclaredZones
    /\ hostedZones = <<[Id |-> 1, Name |-> Apex, CallerReference |-> UID]>>
    /\ zoneTags \in {NoTags,
                      [NoTags EXCEPT ![1] = <<[Key |-> hiveDNSZoneAWSTag,
                                               Value |-> OwnerValue]>>]}
    /\ recordSets \in {[NoRecordSets EXCEPT ![1] = ApexRecordSets(Apex)],
                        [NoRecordSets EXCEPT ![1] = ApexRecordSets(Apex)
                                                    \cup {RecordOrder[4]}]}
    /\ additionalTags = <<>>
    /\ statusZoneID \in {NilID, 1}
    /\ statusConditions = <<>>
    /\ hostedZone = NoZone
    /\ currentHostedZoneTags = <<>>
    /\ calls = <<>>
    /\ result = NoResult
    /\ pc = "idle"
    /\ listInput = NoListInput
    /\ listOutput = NoListOutput
    /\ ops = 0
    /\ arrays = <<>>
    /\ builders = <<>>
    /\ built = NoBuild
    /\ writes = 0

SpecOperations == InitOperations /\ [][NextOperations]_vars

-----------------------------------------------------------------------------
(* Properties of GetNameServers and of the operations on an actuator      *)
(* without a zone, checked under SpecOperations                           *)

\* GetNameServers ran last, on a resolved zone.
AfterGetNameServers == result.op = "GetNameServers" /\ hostedZone # NoZone

\* C12: GetNameServers on a resolved zone issues one query; it returns
\* success exactly when the query returns one record set, of type NS, whose
\* name is the declared domain followed by the separator, and then returns
\* that record set's values in the order returned; a failed query, no or
\* several record sets, another type or another name give an error and a
\* nil list.
C12_NameServersOnlyFromTheOneApexRecord ==
    AfterGetNameServers =>
        /\ Len(calls) = 1
        /\ calls[1].op = "ListResourceRecordSets"
        /\ LET rs == calls[1].ResourceRecordSets
               ok == /\ calls[1].err = NoError
                     /\ Len(rs) = 1
                     /\ rs[1].Type = "NS"
                     /\ rs[1].Name = specZone \o <<"">>
           IN  /\ result.err = NoError <=> ok
               /\ ok => result.nameServers
                            = [nil |-> FALSE, values |-> rs[1].ResourceRecords]
               /\ ~ok => result.nameServers = [nil |-> TRUE, values |-> <<>>]

\* A success whose values are not in alphabetical order.
C12_Witness ==
    /\ AfterGetNameServers
    /\ result.err = NoError
    /\ result.nameServers.values = <<"ns-2.example.net", "ns-1.example.net">>

\* C19: on an actuator that holds no zone, UpdateMetadata, Delete and
\* GetNameServers each return an error without a provider call and leave
\* the provider, the actuator and the status as they were, and Exists
\* returns false and no error.
C19_UnresolvedOperationsFail ==
    [][(/\ hostedZone = NoZone
        /\ ops' = ops + 1
        /\ result'.op \in {"UpdateMetadata", "Delete", "GetNameServers", "Exists"}) =>
            /\ calls' = <<>>
            /\ pc' = "idle"
            /\ UNCHANGED <<providerVars, specVars, builderVars, writes, statusZoneID,
                           statusConditions,
                           actuatorVars>>
            /\ IF result'.op = "Exists"
               THEN ~result'.exists /\ result'.err = NoError
               ELSE /\ result'.err.kind = "error"
                    /\ result'.err.Message = "hostedZone is unpopulated"
            /\ result'.op = "GetNameServers" => result'.nameServers.nil
            /\ result'.op = "Delete" => result'.returned]_vars

\* A Delete that returned at once on a new actuator, the status holding
\* the id of a zone that exists.
C19_Witness ==
    /\ result.op = "Delete"
    /\ result.returned
    /\ result.err.Message = "hostedZone is unpopulated"
    /\ calls = <<>>
    /\ hostedZone = NoZone
    /\ statusZoneID # NilID
    /\ \E i \in 1..Len(hostedZones) : hostedZones[i].Id = statusZoneID

-----------------------------------------------------------------------------
(* Create whose tag sync fails, checked under Spec *)

\* The Create that ran last got as far as the tag sync, and a
\* ChangeTagsForResource call of the sync failed.
CreateSyncFailed ==
    /\ result.op = "Create"
    /\ Len(calls) > 0
    /\ calls[Len(calls)].op = "ChangeTagsForResource"
    /\ calls[Len(calls)].err # NoError

\* C17: when the tag sync inside Create fails, Create returns the error of
\* the failed call, has issued no DeleteHostedZone call, and the zone,
\* created or found by caller reference, is on the provider, cached in the
\* actuator and recorded in the status.
C17_SyncFailureKeepsZone ==
    CreateSyncFailed =>
        /\ result.err = calls[Len(calls)].err
        /\ \A i \in 1..Len(calls) : calls[i].op # "DeleteHostedZone"
        /\ hostedZone # NoZone
        /\ \E i \in 1..Len(hostedZones) : hostedZones[i] = hostedZone
        /\ hostedZone.CallerReference = "uid-1"
        /\ statusZoneID = hostedZone.Id

\* A Create that found its zone by caller reference and whose tag sync
\* then failed.
C17_Witness ==
    /\ CreateSyncFailed
    /\ calls[2].op = "ListHostedZonesByName"
    /\ statusZoneID = hostedZone.Id
    /\ hostedZone # NoZone

-----------------------------------------------------------------------------
(* The tag diff over any declared tags and any tags on the zone *)

\* The tags drawn: the ownership tag, the ownership key with the value of
\* another resource, one key with two values, and one more key.
DiffTags ==
    {[Key |-> hiveDNSZoneAWSTag, Value |-> OwnerValue],
     [Key |-> hiveDNSZoneAWSTag, Value |-> "other/owner"],
     [Key |-> "k1", Value |-> "x"], [Key |-> "k1", Value |-> "y"],
     [Key |-> "team", Value |-> "x"]}

\* The largest numbers of declared tags and of tags on the zone.
MaxDeclared == 2
MaxHeld == 3

\* The declared tags: any list, repeated tags included.
DeclaredTagLists ==
    UNION {[1..n -> {t \in DiffTags : t.Value # "other/owner"}] : n \in 0..MaxDeclared}

\* The tags of a zone: any list with one tag per key.
HeldTagLists ==
    UNION {{l \in [1..n -> DiffTags] :
                \A i \in 1..n, j \in 1..n : i # j => l[i].Key # l[j].Key} :
           n \in 0..MaxHeld}

InitDiff ==
    /\ specZone = <<"z", "example", "com">>
    /\ hostedZones = <<[Id |-> 1, Name |-> Dotted(specZone), CallerReference |-> UID]>>
    /\ recordSets = [NoRecordSets EXCEPT ![1] = ApexRecordSets(Dotted(specZone))]
    /\ additionalTags \in DeclaredTagLists
    /\ \E held \in HeldTagLists : zoneTags = [NoTags EXCEPT ![1] = held]
    /\ statusZoneID = 1
    /\ statusConditions = <<>>
    /\ hostedZone = NoZone
    /\ currentHostedZoneTags = <<>>
    /\ calls = <<>>
    /\ result = NoResult
    /\ pc = "idle"
    /\ listInput = NoListInput
    /\ listOutput = NoListOutput
    /\ ops = 0
    /\ arrays = <<>>
    /\ builders = <<>>
    /\ built = NoBuild
    /\ writes = 0

NextDiff == PassRefresh \/ PassUpdateMetadata \/ NewAWSActuator

SpecDiff == InitDiff /\ [][NextDiff]_vars

-----------------------------------------------------------------------------
(* Properties of the tag diff, checked under SpecDiff *)

\* How many of the first n tags of the list are the tag t.
Occurrences(list, t, n) == Cardinality({i \in 1..n : list[i] = t})

\* The tags of the list at the given places, in the list's order.
Kept(list, places) ==
    LET nth(k) == CHOOSE i \in places : Cardinality({j \in places : j < i}) = k - 1
    IN  [k \in 1..Cardinality(places) |-> list[nth(k)]]

\* The expected tags, as the declared resource gives them.
Expected == <<[Key |-> "hive.openshift.io/dnszone", Value |-> "a/b"]>> \o additionalTags

\* C20: the add-set of a tag sync is made of the expected tags that no tag
\* of the zone with the same key and the same value is left for, each tag
\* of the zone standing for one expected tag only, in the order of the
\* expected tags; the delete-set is made of the tags of the zone that no
\* expected tag equals, in the zone's order; and a sync with something to
\* add or delete and no more than 10 of each issues one call with both.
C20_DiffIsExactOnKeyAndValue ==
    (result.op = "UpdateMetadata" /\ hostedZone # NoZone) =>
        LET current == currentHostedZoneTags
            add == {i \in 1..Len(Expected) :
                        Occurrences(Expected, Expected[i], i)
                            > Occurrences(current, Expected[i], Len(current))}
            del == {j \in 1..Len(current) :
                        Occurrences(current, current[j], j)
                            > Occurrences(Expected, current[j], Len(Expected))}
        IN  /\ result.toAdd = Kept(Expected, add)
            /\ result.toDelete = Kept(current, del)
            /\ IF result.toAdd = <<>> /\ result.toDelete = <<>>
               THEN calls = <<>>
               ELSE /\ Len(calls) = 1
                    /\ calls[1].op = "ChangeTagsForResource"
                    /\ calls[1].AddTags = result.toAdd
                    /\ calls[1].RemoveTagKeys
                        = [j \in 1..Len(result.toDelete) |-> result.toDelete[j].Key]

\* The zone holds the ownership tag and the resource declares one more
\* tag: that tag is added, nothing is deleted, with one call.
C20_Witness ==
    /\ result.op = "UpdateMetadata"
    /\ result.err = NoError
    /\ currentHostedZoneTags = <<[Key |-> "hive.openshift.io/dnszone", Value |-> "a/b"]>>
    /\ additionalTags = <<[Key |-> "team", Value |-> "x"]>>
    /\ result.toAdd = <<[Key |-> "team", Value |-> "x"]>>
    /\ result.toDelete = <<>>
    /\ Len(calls) = 1

-----------------------------------------------------------------------------
(* The order of the calls of a Delete, checked under SpecDelete *)

\* The record sets of the page of call i that the sweep has to delete.
Deletable(i) == SelectSeq(calls[i].ResourceRecordSets, LAMBDA r : ~ApexNSOrSOA(r))

\* The list call that follows call i, 0 when none does.
NextList(i) ==
    LET later == {j \in (i + 1)..Len(calls) : IsList(j)}
    IN  IF later = {} THEN 0 ELSE CHOOSE j \in later : \A k \in later : j <= k

\* C22: after each page listed without error, the record sets of the page
\* other than the apex NS and SOA ones are submitted in one change call,
\* which is the very next call; a page with none of them is followed by no
\* change call; and the list call that follows asks for the page that
\* starts at the name, type and set identifier returned with that page.
C22_OneChangePerPageThenNextCursor ==
    \A i \in 1..Len(calls) :
        (IsList(i) /\ calls[i].err = NoError) =>
            /\ IF Deletable(i) # <<>>
               THEN IF i = Len(calls) THEN pc = "change"
                    ELSE /\ IsChange(i + 1)
                         /\ calls[i + 1].Changes = Deletable(i)
                         /\ i + 2 <= Len(calls) => ~IsChange(i + 2)
               ELSE i < Len(calls) => ~IsChange(i + 1)
            /\ NextList(i) # 0 =>
                    /\ calls[i].IsTruncated
                    /\ NextList(i) = (IF Deletable(i) # <<>> THEN i + 2 ELSE i + 1)
                    /\ calls[NextList(i)].Start.Name = calls[i].Next.Name
                    /\ calls[NextList(i)].Start.Type = calls[i].Next.Type
                    /\ calls[NextList(i)].Start.SetIdentifier = calls[i].Next.SetIdentifier

\* A page of the two apex record sets, followed at once by the listing of
\* the page that starts at a record set with a set identifier, whose two
\* record sets are then deleted with one change.
C22_Witness ==
    \E i \in 1..Len(calls) :
        /\ IsList(i)
        /\ Len(calls[i].ResourceRecordSets) = 2
        /\ Deletable(i) = <<>>
        /\ i + 2 <= Len(calls)
        /\ IsList(i + 1)
        /\ calls[i + 1].Start.SetIdentifier = "blue"
        /\ IsChange(i + 2)
        /\ Len(calls[i + 2].Changes) = 2

\* C23: a DeleteHostedZone call is the last call of a Delete and comes
\* after a sweep all of whose calls succeeded and whose last page was not
\* truncated; a record listing or record deletion that fails is the last
\* call of the Delete, which returns its error.
C23_ZoneDeletedOnlyAfterCleanSweep ==
    \A i \in 1..Len(calls) :
        /\ calls[i].op = "DeleteHostedZone" =>
                /\ i = Len(calls)
                /\ i > 1
                /\ IsList(1) /\ calls[1].Start = NoCursor
                /\ \A j \in 1..(i - 1) :
                        /\ IsList(j) \/ IsChange(j)
                        /\ calls[j].err = NoError
                        /\ IsList(j) => (calls[j].IsTruncated <=> NextList(j) # 0)
        /\ ((IsList(i) \/ IsChange(i)) /\ calls[i].err # NoError) =>
                /\ i = Len(calls)
                /\ pc = "idle"
                /\ result.op = "Delete"
                /\ result.returned
                /\ result.err = calls[i].err

\* A Delete that returned the error of a record deletion after an earlier
\* page had been swept.
C23_Witness ==
    /\ result.op = "Delete"
    /\ result.returned
    /\ Len(calls) >= 4
    /\ IsChange(Len(calls))
    /\ calls[Len(calls)].err # NoError
    /\ result.err = calls[Len(calls)].err

-----------------------------------------------------------------------------
(* The search by caller reference inside Create, checked under Spec *)

\* The Create that ran last was told that the zone exists already and
\* searched the listing.
AfterSearch ==
    /\ result.op = "Create"
    /\ Len(calls) >= 2
    /\ calls[2].op = "ListHostedZonesByName"

ListCalls == SelectSeq(calls, LAMBDA c : c.op = "ListHostedZonesByName")

\* The entries of the listing, from the one the search starts at, where a
\* scan stops: the caller reference is the UID, or the name is not the
\* domain as declared.
StopsAt ==
    {i \in ListCalls[1].from..Len(hostedZones) :
        \/ hostedZones[i].CallerReference = "uid-1"
        \/ hostedZones[i].Name # specZone}

FirstStop == CHOOSE i \in StopsAt : \A j \in StopsAt : i <= j

\* C24: the search lists page after page from the declared name on and
\* never more pages than the listing has; it ends at the first entry that
\* has the UID as caller reference, which it returns, or as not found at
\* the first entry of another name or after a page that is not truncated;
\* when it ends as not found or a listing fails, Create returns that error
\* with no zone cached and no zone id in the status.
C24_SearchEndsAtFirstStop ==
    AfterSearch =>
        LET n == Len(ListCalls)
            start == ListCalls[1].from
            last == IF StopsAt = {} THEN Len(hostedZones) ELSE FirstStop
            pages == IF last < start THEN 1 ELSE ((last - start) \div ZonesPageSize) + 1
            found == StopsAt # {} /\ hostedZones[FirstStop].CallerReference = "uid-1"
        IN  /\ \A k \in 1..n : ListCalls[k].from = start + (k - 1) * ZonesPageSize
            /\ \A k \in 1..(n - 1) : ListCalls[k].err = NoError
            /\ n <= pages
            /\ IF ListCalls[n].err # NoError
               THEN /\ result.err = ListCalls[n].err
                    /\ hostedZone = NoZone /\ statusZoneID = NilID
               ELSE /\ n = pages
                    /\ IF found
                       THEN \/ hostedZone = hostedZones[FirstStop]
                                /\ statusZoneID = hostedZone.Id
                            \/ /\ calls[Len(calls)].op = "ListTagsForResource"
                                /\ calls[Len(calls)].ResourceId = hostedZones[FirstStop].Id
                                /\ result.err = calls[Len(calls)].err
                                /\ result.err # NoError
                                /\ hostedZone = NoZone /\ statusZoneID = NilID
                       ELSE /\ result.err = [kind |-> "error", Code |-> "",
                                             Message |-> "Hosted zone not found"]
                            /\ calls[Len(calls)] = ListCalls[n]
                            /\ hostedZone = NoZone /\ statusZoneID = NilID

\* A search that found the resource's zone on the second page, behind two
\* zones of the same name that other resources created.
C24_Witness ==
    /\ AfterSearch
    /\ Len(ListCalls) = 2
    /\ result.err = NoError
    /\ hostedZone.CallerReference = "uid-1"
    /\ hostedZone = hostedZones[3]
    /\ hostedZones[1].Name = hostedZone.Name
    /\ hostedZones[2].Name = hostedZone.Name

-----------------------------------------------------------------------------
(* A Refresh that returns an error, checked under SpecRefresh *)

\* C28: after a Refresh that returned an error the actuator holds no zone
\* and the zone id of the status is the one it was before the call.
C28_FailedRefreshResolvesNoZone ==
    (AfterRefresh /\ result.err # NoError) =>
        /\ hostedZone = NoZone
        /\ statusZoneID = result.before

-----------------------------------------------------------------------------
(* The zone held and the zone id of the status, under every specification *)

\* C27: whenever the actuator holds a zone, the status has a zone id and it
\* is the id of the zone held, so that the record sweep, which takes the id
\* from the status, and the DeleteHostedZone call, which takes it from the
\* zone held, name the same zone.
C27_StatusIdIsIdOfZoneHeld ==
    /\ hostedZone # NoZone =>
        /\ statusZoneID # NilID
        /\ statusZoneID = hostedZone.Id
    /\ \A k \in 1..Len(calls) :
        calls[k].op = "DeleteHostedZone" =>
            \A j \in 1..(k - 1) :
                calls[j].op \in {"ListResourceRecordSets", "ChangeResourceRecordSets"}
                    => calls[j].HostedZoneId = calls[k].Id

\* A Delete that swept the records of the zone held and deleted the zone.
C27_Witness ==
    /\ result.op = "Delete"
    /\ result.err = NoError
    /\ hostedZone # NoZone
    /\ statusZoneID = hostedZone.Id
    /\ \E k \in 1..Len(calls) :
        /\ calls[k].op = "ChangeResourceRecordSets"
        /\ calls[k].HostedZoneId = hostedZone.Id
    /\ calls[Len(calls)].op = "DeleteHostedZone"
    /\ calls[Len(calls)].Id = hostedZone.Id

-----------------------------------------------------------------------------
(* The ClusterDeployment test builder (pkg/test/clusterdeployment) *)

\* An Option is known by its name; the zero value of an array slot.
NilOption == ""
OptionNames == {"x", "y"}

MaxBuilders == 4
MaxCap == 6
MaxOpts == 1
MaxBuilderOps == 4

\* The option lists a caller passes: up to MaxOpts options.
OptionLists == UNION {[1..n -> OptionNames] : n \in 0..MaxOpts}

\* A []Option: the array it points into (0 for a nil slice) and its length.
\* Every slice of the builders starts at the first slot of its array.
NilSlice == [array |-> 0, len |-> 0]

cap(as, s) == IF s.array = 0 THEN 0 ELSE Len(as[s.array])

\* The elements of a slice.
Elems(as, s) == IF s.len = 0 THEN <<>> ELSE SubSeq(as[s.array], 1, s.len)

\* The capacities an append may give the array it allocates for n elements:
\* the language asks for a sufficiently large array and the runtime rounds
\* up or doubles.
GrownCaps(n) == {c \in n..(2 * n) : c <= MaxCap}

\* append(s, opts...): with room in the array of s the options are written
\* into that array behind the elements of s; without room a new array of
\* capacity newcap gets the elements of s and the options.
append(as, s, opts, newcap) ==
    IF Len(opts) = 0
    THEN [arrays |-> as, slice |-> s]
    ELSE LET n == s.len + Len(opts)
         IN  IF n <= cap(as, s)
             THEN [arrays |-> [as EXCEPT ![s.array] =
                                  [i \in 1..Len(@) |->
                                      IF i > s.len /\ i <= n THEN opts[i - s.len]
                                      ELSE @[i]]],
                   slice |-> [array |-> s.array, len |-> n]]
             ELSE [arrays |-> Append(as, [i \in 1..newcap |->
                                              IF i <= s.len THEN as[s.array][i]
                                              ELSE IF i <= n THEN opts[i - s.len]
                                              ELSE NilOption]),
                   slice |-> [array |-> Len(as) + 1, len |-> n]]

\* Build: a new ClusterDeployment with the options applied in order. The
\* object is known by the options applied to it, in the order applied.
RECURSIVE ApplyOptions(_, _)
ApplyOptions(retval, opts) ==
    IF Len(opts) = 0 THEN retval
    ELSE ApplyOptions(Append(retval, Head(opts)), Tail(opts))

Build(opts) == ApplyOptions(<<>>, opts)

\* Generic: the Option that applies a generic option.
Generic(o) == "generic." \o o

\* The options FullBuilder starts from.
FullBuilderOptions == <<"WithTypeMeta", "WithResourceVersion", "WithNamespace", "WithName">>

\* The capacities an append onto builder slice s may allocate with.
NewCaps(s, opts) ==
    IF s.len + Len(opts) <= MaxCap /\ Len(opts) > 0 /\ s.len + Len(opts) > cap(arrays, s)
    THEN GrownCaps(s.len + Len(opts))
    ELSE {0}

\* A builder call counts as an operation and leaves the rest alone.
builderFrame ==
    /\ ops < MaxBuilderOps
    /\ ops' = ops + 1
    /\ UNCHANGED <<providerVars, specVars, writes, statusZoneID, statusConditions,
                   actuatorVars, calls, result, deleteVars>>

\* BasicBuilder: a builder without options.
BasicBuilder ==
    /\ Len(builders) < MaxBuilders
    /\ builders' = Append(builders, NilSlice)
    /\ built' = [op |-> "BasicBuilder", b |-> 0, opts |-> <<>>, retval |-> <<>>]
    /\ UNCHANGED arrays
    /\ builderFrame

\* builder.Options: a new builder holding append(b.options, opts...).
Options(b, opts, newcap) ==
    /\ Len(builders) < MaxBuilders
    /\ builders[b].len + Len(opts) <= MaxCap
    /\ LET r == append(arrays, builders[b], opts, newcap)
       IN  /\ arrays' = r.arrays
           /\ builders' = Append(builders, r.slice)
    /\ built' = [op |-> "Options", b |-> b, opts |-> opts, retval |-> <<>>]
    /\ builderFrame

\* builder.GenericOptions: Options with each generic option wrapped.
GenericOptions(b, opts, newcap) ==
    /\ Len(builders) < MaxBuilders
    /\ builders[b].len + Len(opts) <= MaxCap
    /\ LET options == [i \in 1..Len(opts) |-> Generic(opts[i])]
           r == append(arrays, builders[b], options, newcap)
       IN  /\ arrays' = r.arrays
           /\ builders' = Append(builders, r.slice)
           /\ built' = [op |-> "GenericOptions", b |-> b, opts |-> options,
                        retval |-> <<>>]
    /\ builderFrame

\* FullBuilder: GenericOptions with the four starting options on a builder
\* without options, which nothing else refers to.
FullBuilder(newcap) ==
    /\ Len(builders) < MaxBuilders
    /\ LET options == [i \in 1..Len(FullBuilderOptions) |->
                          Generic(FullBuilderOptions[i])]
           r == append(arrays, NilSlice, options, newcap)
       IN  /\ arrays' = r.arrays
           /\ builders' = Append(builders, r.slice)
           /\ built' = [op |-> "FullBuilder", b |-> 0, opts |-> options,
                        retval |-> <<>>]
    /\ builderFrame

\* builder.Build: Build(append(b.options, opts...)...). An array the append
\* allocated is referred to by nothing once Build has returned; what the
\* append wrote into the array of b.options stays.
BuilderBuild(b, opts, newcap) ==
    /\ builders[b].len + Len(opts) <= MaxCap
    /\ LET r == append(arrays, builders[b], opts, newcap)
       IN  /\ arrays' = IF Len(r.arrays) > Len(arrays) THEN arrays ELSE r.arrays
           /\ built' = [op |-> "Build", b |-> b, opts |-> opts,
                        retval |-> Build(Elems(r.arrays, r.slice))]
    /\ UNCHANGED builders
    /\ builderFrame

NextBuilder ==
    \/ BasicBuilder
    \/ \E newcap \in GrownCaps(Len(FullBuilderOptions)) : FullBuilder(newcap)
    \/ \E b \in 1..Len(builders), opts \in OptionLists :
        \E newcap \in NewCaps(builders[b], opts) : Options(b, opts, newcap)
    \/ \E b \in 1..Len(builders), opts \in OptionLists :
        \E newcap \in NewCaps(builders[b], opts) : GenericOptions(b, opts, newcap)
    \/ \E b \in 1..Len(builders), opts \in OptionLists :
        \E newcap \in NewCaps(builders[b], opts) : BuilderBuild(b, opts, newcap)

InitBuilder ==
    /\ hostedZones = <<>>
    /\ zoneTags = <<>>
    /\ recordSets = {}
    /\ specZone = <<"z", "example", "com">>
    /\ additionalTags = <<>>
    /\ statusZoneID = NilID
    /\ statusConditions = <<>>
    /\ hostedZone = NoZone
    /\ currentHostedZoneTags = <<>>
    /\ calls = <<>>
    /\ result = NoResult
    /\ pc = "idle"
    /\ listInput = NoListInput
    /\ listOutput = NoListOutput
    /\ ops = 0
    /\ arrays = <<>>
    /\ builders = <<>>
    /\ built = NoBuild
    /\ writes = 0

SpecBuilder == InitBuilder /\ [][NextBuilder]_vars

-----------------------------------------------------------------------------
(* Properties of the test builder, checked under SpecBuilder *)

\* C30: a call of Options or GenericOptions adds a builder whose options
\* are the receiver's followed by the options passed, and leaves the
\* option list of every builder made before as it was; so a Build on a
\* builder applies the options of the builder it was derived from and
\* then the options it was derived with.
C30_OptionsLeaveOtherBuildersAsTheyWere ==
    [][(built'.op \in {"Options", "GenericOptions"} /\ Len(builders') = Len(builders) + 1)
        => /\ \A k \in 1..Len(builders) :
                Elems(arrays', builders'[k]) = Elems(arrays, builders[k])
           /\ Elems(arrays', builders'[Len(builders')])
                = Elems(arrays, builders[built'.b]) \o built'.opts]_vars

-----------------------------------------------------------------------------
(* Passes run again and again: the scheduler's retries *)

\* The provider calls can fail, and a create response can be lost, during
\* the operations before this one; from it on no call fails.
QuietFrom == MaxOps - 2

PassFails == IF ops < QuietFrom THEN Fails ELSE {NoFail}

RetryRefresh ==
    /\ result.op \in {"none", "NewAWSActuator"}
    /\ \E fail \in PassFails : Refresh(fail)

RetryCreate ==
    /\ result.op = "Refresh" /\ result.err = NoError /\ hostedZone = NoZone
    /\ \E pos \in 1..(MaxZones + 1), fail \in PassFails,
          lost \in (IF ops < QuietFrom THEN BOOLEAN ELSE {FALSE}) :
            Create(pos, fail, lost)

RetryUpdateMetadata ==
    /\ result.op = "Refresh" /\ result.err = NoError /\ hostedZone # NoZone
    /\ \E fail \in PassFails : UpdateMetadata(fail)

\* The scheduler runs the next pass, on a new actuator, once the pass
\* before it has ended: with Create or UpdateMetadata, or with a Refresh
\* that returned an error. The operations are counted up to the one the
\* calls stop failing at.
Requeue ==
    /\ pc = "idle"
    /\ \/ result.op \in {"Create", "UpdateMetadata"}
       \/ result.op = "Refresh" /\ result.err # NoError
    /\ hostedZone' = NoZone
    /\ currentHostedZoneTags' = <<>>
    /\ calls' = <<>>
    /\ result' = [op |-> "NewAWSActuator", err |-> NoError, synced |-> result.synced]
    /\ ops' = IF ops > QuietFrom THEN QuietFrom ELSE ops
    /\ UNCHANGED <<providerVars, specVars, builderVars, writes, statusZoneID, statusConditions,
                   deleteVars>>

NextRetry == Requeue \/ RetryRefresh \/ RetryCreate \/ RetryUpdateMetadata

\* Before the first pass the provider holds no zone or one zone of another
\* resource, without tags.
InitRetry ==
    /\ specZone \in DeclaredZones
    /\ hostedZones \in {l \in InitialListings : Len(l) <= 1}
    /\ zoneTags = [id \in ZoneIDs |-> <<>>]
    /\ recordSets = [id \in ZoneIDs |->
                        IF id <= Len(hostedZones)
                        THEN ApexRecordSets(hostedZones[id].Name) ELSE {}]
    /\ \E n \in {0, 1} : additionalTags = [i \in 1..n |-> UserTag(i)]
    /\ statusZoneID = NilID
    /\ statusConditions = <<>>
    /\ hostedZone = NoZone
    /\ currentHostedZoneTags = <<>>
    /\ calls = <<>>
    /\ result = NoResult
    /\ pc = "idle"
    /\ listInput = NoListInput
    /\ listOutput = NoListOutput
    /\ ops = 0
    /\ arrays = <<>>
    /\ builders = <<>>
    /\ built = NoBuild
    /\ writes = 0

\* Every pass is run to its end and every pass is followed by another: in
\* every state one step of the passes is the next, and it is taken.
SpecRetry ==
    /\ InitRetry
    /\ [][NextRetry]_vars
    /\ WF_vars(NextRetry)

-----------------------------------------------------------------------------
(* Convergence of the passes, checked under SpecRetry *)

MutatingCalls ==
    {k \in 1..Len(calls) : calls[k].op \in {"CreateHostedZone", "ChangeTagsForResource"}}

\* A pass has completed without error, the status holds the id of a zone
\* of the declared name that the provider holds, and that zone carries
\* exactly the expected tags.
Converged ==
    /\ result.op \in {"Create", "UpdateMetadata"}
    /\ result.err = NoError
    /\ statusZoneID # NilID
    /\ ZoneExists(statusZoneID)
    /\ ZoneByID(statusZoneID).Name = Dotted(specZone)
    /\ SameTags(zoneTags[statusZoneID], expectedTags)

\* C25: once the provider calls have stopped failing, a pass completes
\* without error with the zone carrying exactly the expected tags and its
\* id in the status, and from some pass on no pass issues a CreateHostedZone
\* or ChangeTagsForResource call.
C25_PassesConverge == <>Converged /\ <>[](MutatingCalls = {})

-----------------------------------------------------------------------------
(* Delete passes run again and again while another writer adds records *)

\* A Delete pass whose calls fail for no reason but the provider's state.
RetryDeleteRefresh ==
    /\ result.op \in {"none", "NewAWSActuator"}
    /\ Refresh(NoFail)

RetrySweep == SweepList(NoError) \/ SweepChange(NoError) \/ DeleteZone(NoError)

\* The other writer adds MaxWrites record sets at most, then stops.
RetryWriter ==
    /\ writes < MaxWrites
    /\ Writer

\* The scheduler runs the next pass, on a new actuator, once the pass
\* before it has ended: with the return of Delete, or with a Refresh that
\* returned an error or found no zone.
RequeueDelete ==
    /\ pc = "idle"
    /\ \/ result.op = "Delete" /\ result.returned
       \/ result.op = "Refresh" /\ (result.err # NoError \/ hostedZone = NoZone)
    /\ hostedZone' = NoZone
    /\ currentHostedZoneTags' = <<>>
    /\ calls' = <<>>
    /\ result' = [op |-> "NewAWSActuator", err |-> NoError, synced |-> result.synced]
    /\ ops' = 0
    /\ UNCHANGED <<providerVars, specVars, builderVars, writes, statusZoneID,
                   statusConditions, deleteVars>>

DeletePasses == RequeueDelete \/ RetryDeleteRefresh \/ PassDelete \/ RetrySweep

NextDeleteRetry == DeletePasses \/ RetryWriter

\* Every pass is run to its end and every pass is followed by another; the
\* writer is free to add its records at any moment or not at all.
SpecDeleteRetry ==
    /\ InitDelete
    /\ [][NextDeleteRetry]_vars
    /\ WF_vars(DeletePasses)

-----------------------------------------------------------------------------
(* The end of the Delete passes, checked under SpecDeleteRetry *)

\* The record sets of the zone that a sweep deletes.
Unprotected(id) == {r \in recordSets[id] : ~IsProtected(r)}

\* A Delete returned after its DeleteHostedZone call.
AfterDeleteZoneCall ==
    /\ result.op = "Delete"
    /\ result.returned
    /\ Len(calls) > 0
    /\ calls[Len(calls)].op = "DeleteHostedZone"

\* C26: once the other writer has stopped, the passes delete every record
\* set but the protected ones and then the zone, and the zone stays
\* deleted; and a Delete that comes to its DeleteHostedZone call while the
\* zone holds a record set the writer added behind the sweep returns the
\* provider's HostedZoneNotEmpty error and leaves the zone in place.
C26_DeletePassesEndWithZoneDeleted ==
    /\ <>[](~ZoneExists(1) /\ recordSets[1] = {})
    /\ [](AfterDeleteZoneCall =>
            IF ZoneExists(1)
            THEN /\ result.err = HostedZoneNotEmpty
                 /\ Unprotected(1) # {}
            ELSE result.err = NoError)

\* A Delete whose sweep deleted record sets and listed every page, and
\* whose DeleteHostedZone call found a record set the other writer had
\* added behind the sweep.
C26_Witness ==
    /\ AfterDeleteZoneCall
    /\ result.err = HostedZoneNotEmpty
    /\ ZoneExists(1)
    /\ writes > 0
    /\ Unprotected(1) # {}
    /\ \E k \in 1..Len(calls) :
        /\ calls[k].op = "ChangeResourceRecordSets"
        /\ calls[k].err = NoError

====
